---------------------------- MODULE Spec2Model ----------------------------
(***************************************************************************)
(* The feature-store pipeline of Data/sqlDB/processAndStore.py:            *)
(* load_stage appends one symbol's rows to dbo.processed_stage,            *)
(* merge_stage merges the staging table into dbo.processed_prices and      *)
(* truncates it, and main drives both over the listed raw files.           *)
(*                                                                         *)
(* The specifications share the tables:                                    *)
(*   Spec      a client that issues load_stage and merge_stage calls in    *)
(*             any order on one connection, statement by statement, and    *)
(*             may crash at any point;                                     *)
(*   SpecMain  the driver main(), one loop iteration per step;             *)
(*   SpecTwice main() run to Done and then run again over the same files;  *)
(*   SpecLoad  one load_stage call and one merge_stage call as the         *)
(*             connection sees them, cursor call by cursor call;           *)
(*   SpecTwo   two processes that stage and merge at the same time;        *)
(*   SpecStart the start of the pipeline under an environment;             *)
(*   SpecRead, SpecFeat, SpecSymbol                                        *)
(*             one call of read_raw_csv, of compute_features, and of the   *)
(*             symbol derivation of main, on arguments of a bounded set.   *)
(*                                                                         *)
(* The trading game of app/api/game.py has its own state:                  *)
(*   SpecGame  the requests of the game router, one request per step;      *)
(*   SpecScore one call of _calculate_score.                               *)
(***************************************************************************)
EXTENDS Integers, Sequences, FiniteSets, Bags, TLC

(***************************************************************************)
(* Bounds of the model.                                                    *)
(***************************************************************************)
MaxSeriesLen == 2      \* rows of one load_stage call (Spec)
MaxStageRows == 3      \* rows held by the staging table (Spec)
MaxFiles == 43         \* raw files the listing returns (SpecMain)
MaxOdd == 2            \* listed files that are not one plain one-row file (SpecMain)
MaxOddTwice == 1       \* the same, where main is run twice (SpecTwice)
MaxLoads == 2          \* load_stage calls of one process (SpecTwo)
MaxRawRows == 3        \* rows of one raw file (SpecRead)
MaxNameLen == 3        \* pieces of one file name (SpecSymbol)
MaxShortRows == 3      \* rows of a series drawn cell by cell (SpecFeat)
MaxFeatRows == 200     \* rows of a series drawn by pattern (SpecFeat)
MaxTrades == 2         \* trades one game records (SpecGame)
MaxDay == 5            \* the latest day a tick is followed to (SpecGame)

\* if i % 40 == 0: the chunk size of main.
K == 40

\* pd.to_numeric(..., errors="coerce"): a close that does not parse is NaN.
NaN == 0

\* float(x) if pd.notna(x) else None: the null that is sent to the server.
None == -1

\* np.inf and -np.inf, which pandas does not count as missing.
PosInf == 99

NegInf == -99

\* close.shift(20): the lag of Momentum_20.
Lag == 20

\* pd.to_datetime(..., errors="coerce"): a Date that does not parse is NaT.
NaT == 0

(***************************************************************************)
(* Value domains.  A row's value columns are its close and one stand-in    *)
(* for the derived feature columns, which both statements treat alike.     *)
(***************************************************************************)
Symbols  == {1, 2}
Dates    == {1, 2}
Payloads == {[close |-> 1, feat |-> 1], [close |-> 2, feat |-> 2]}

VARIABLES
    perm,        \* dbo.processed_prices as committed: a set of rows
    stage,       \* dbo.processed_stage as committed: a bag of rows
    txPerm,      \* processed_prices as the connection sees it in its transaction
    txStage,     \* processed_stage as the connection sees it in its transaction
    pc,          \* position of the client (Spec) or of main (SpecMain)
    lastOp,      \* history: the last call that returned or raised
    prePerm,     \* history: processed_prices when the latest merge_stage began
    preStage,    \* history: processed_stage when the latest merge_stage began
    i,           \* main: the loop index, the number of listed files taken so far
    processed_rows,  \* main: the running row count
    raisedBy,    \* history: the call of main that raised last ("none": none did)
    odd,         \* history: how many files so far were not plain
    mergedAt,    \* history: the loop indexes at which the chunk merge was called
    finalMerges, \* history: how often the merge after the loop was called
    lastStaged,  \* history: per key, the values load_stage staged last
    cnOpen,      \* main: the connection of get_conn() is not closed
    listed,      \* history: the listed files that were not plain, each with its position
    runs,        \* how often main is run: once (SpecMain) or twice (SpecTwice)
    run,         \* SpecTwice: 1 in the first run of main, 2 in the second
    nFiles,      \* SpecTwice: the length of the listing, known once a run took it all
    permDone,    \* SpecTwice: processed_prices when the first run reached Done
    symArg,      \* SpecLoad: the symbol argument of the load_stage call
    dfpArg,      \* SpecLoad: the dfp argument of the load_stage call
    executed,    \* SpecLoad: the cursor calls of the current call, in order
    commits,     \* SpecLoad: the cn.commit() calls of the current call
    cfg,         \* SpecTwo: how the two processes are deployed
    tables,      \* SpecTwo: the staging tables as committed, by table name
    procs,       \* SpecTwo: each process's position and what its MERGE read
    mergedTimes, \* SpecTwo history: how often each staged row was merged
    truncated,   \* SpecTwo history: the staged rows a TRUNCATE removed
    arg,         \* the argument of the one function a specification calls
    ret,         \* what that function returned
    game_states, \* game.py: the games in memory, by game id
    historical_data_cache  \* game.py: the price history loaded for a game

dbVars == <<perm, stage, txPerm, txStage>>

histVars == <<lastOp, prePerm, preStage>>

runVars == <<runs, run, nFiles, permDone>>

mainVars == <<i, processed_rows, raisedBy, odd, mergedAt, finalMerges, lastStaged,
              cnOpen, listed, runVars>>

loadVars == <<symArg, dfpArg, executed, commits>>

twoVars == <<cfg, tables, procs, mergedTimes, truncated>>

fnVars == <<arg, ret>>

gameVars == <<game_states, historical_data_cache>>

vars == <<perm, stage, txPerm, txStage, pc, lastOp, prePerm, preStage,
          i, processed_rows, raisedBy, odd, mergedAt, finalMerges, lastStaged,
          cnOpen, listed, runs, run, nFiles, permDone,
          symArg, dfpArg, executed, commits,
          cfg, tables, procs, mergedTimes, truncated, arg, ret,
          game_states, historical_data_cache>>

----------------------------------------------------------------------------
(***************************************************************************)
(* Rows and keys.                                                          *)
(***************************************************************************)
Key(r) == <<r.symbol, r.date>>

Keys(table) == {Key(r) : r \in table}

\* The columns of a staged row as the statements read them (file is a
\* history tag naming the load_stage call's file, not a column).
Cols(r) == [symbol |-> r.symbol, date |-> r.date, close |-> r.close, feat |-> r.feat]

PermRows == [symbol : Symbols, date : Dates, close : {1, 2}, feat : {1, 2}]

\* PRIMARY KEY (symbol, date) of dbo.processed_prices.
PrimaryKey(table) == \A r1, r2 \in table : Key(r1) = Key(r2) => r1 = r2

\* Bag s holds key k more than once: in two rows, or in one row twice.
KeyTwice(s, k) ==
    \E r1 \in BagToSet(s) :
        /\ Key(r1) = k
        /\ s[r1] > 1 \/ \E r2 \in BagToSet(s) : r2 # r1 /\ Key(r2) = k

----------------------------------------------------------------------------
(***************************************************************************)
(* load_stage: one record per row of dfp, tagged with the symbol argument. *)
(***************************************************************************)
\* pd.notna(x)
NotNa(v) == v \notin {NaN, None}

\* float(r.X) if pd.notna(r.X) else None
FloatOrNone(v) == IF NotNa(v) THEN v ELSE None

StageRow(symbol, r, file) ==
    [symbol |-> symbol, date |-> r.date, close |-> FloatOrNone(r.close),
     feat |-> FloatOrNone(r.feat), file |-> file]

StageRows(symbol, dfp, file) ==
    LET recs == {StageRow(symbol, dfp[j], file) : j \in DOMAIN dfp}
    IN  [x \in recs |->
            Cardinality({j \in DOMAIN dfp : StageRow(symbol, dfp[j], file) = x})]

InsertStageReplacing(s, symbol, dfp, file) == StageRows(symbol, dfp, file)

\* executemany(INSERT INTO dbo.processed_stage ...): the table after it.
InsertStage(s, symbol, dfp, file) == s (+) StageRows(symbol, dfp, file)

\* The cursor calls load_stage makes for dfp: one executemany with the
\* parameter rows of all of dfp.
LoadStatementsPerRow(dfp) == [j \in DOMAIN dfp |-> [op |-> "execute", n |-> 1]]

LoadStatements(dfp) == <<[op |-> "executemany", n |-> Len(dfp)]>>

----------------------------------------------------------------------------
(***************************************************************************)
(* merge_stage: the MERGE statement.                                       *)
(***************************************************************************)
\* ON (tgt.symbol = src.symbol AND tgt.[date] = src.[date])
Matches(t, r) == t.symbol = r.symbol /\ t.date = r.date

\* WHEN MATCHED THEN UPDATE SET <every value column> = src.<column>
UpdateCloseOnly(t, r) ==
    [symbol |-> t.symbol, date |-> t.date, close |-> r.close, feat |-> t.feat]

UpdateAdds(t, r) ==
    [symbol |-> t.symbol, date |-> t.date, close |-> t.close + r.close, feat |-> r.feat]

UpdateSet(t, r) ==
    [symbol |-> t.symbol, date |-> t.date, close |-> r.close, feat |-> r.feat]

\* WHEN NOT MATCHED THEN INSERT (...) VALUES (src. ...)
InsertValues(r) == Cols(r)

MergeMatchedDeletes(p, s) ==
    {t \in p : \A r \in BagToSet(s) : ~Matches(t, r)}
        \cup {InsertValues(r) : r \in {x \in BagToSet(s) : \A t \in p : ~Matches(t, x)}}

MergeDeletesUnmatched(p, s) ==
    {UpdateSet(t, r) : <<t, r>> \in {y \in p \X BagToSet(s) : Matches(y[1], y[2])}}
        \cup {InsertValues(r) : r \in {x \in BagToSet(s) : \A t \in p : ~Matches(t, x)}}

\* processed_prices after the MERGE statement.
MergeResult(p, s) ==
    {t \in p : \A r \in BagToSet(s) : ~Matches(t, r)}
        \cup {UpdateSet(t, r) : <<t, r>> \in {y \in p \X BagToSet(s) : Matches(y[1], y[2])}}
        \cup {InsertValues(r) : r \in {x \in BagToSet(s) : \A t \in p : ~Matches(t, x)}}

\* SQL Server refuses a MERGE that would update one target row from two
\* source rows (error 8672).
UpdatesRowTwice(p, s) ==
    \E t \in p : \E r1 \in BagToSet(s) :
        /\ Matches(t, r1)
        /\ s[r1] > 1 \/ \E r2 \in BagToSet(s) : r2 # r1 /\ Matches(t, r2)

\* Two inserted rows with one key violate the primary key of processed_prices.
InsertsKeyTwice(p, s) ==
    \E r \in BagToSet(s) :
        /\ \A t \in p : ~Matches(t, r)
        /\ KeyTwice(s, Key(r))

\* The MERGE statement fails: it changes nothing and execute raises.
MergeRaises(p, s) == UpdatesRowTwice(p, s) \/ InsertsKeyTwice(p, s)

\* pyodbc.connect(...) leaves autocommit off: the statements of the batch
\* run in one transaction, which cn.commit() ends.  (The batch is taken to
\* run both statements or to make execute raise.)
AutoCommitOn == TRUE

AutoCommit == FALSE

----------------------------------------------------------------------------
(***************************************************************************)
(* Spec: load_stage and merge_stage calls on one connection.               *)
(***************************************************************************)
SeriesOf(n) == [1..n -> [date : Dates, close : {1, 2}, feat : {1, 2}]]

Series == UNION {{d \in SeriesOf(n) : \A j \in 1..n :
                    [close |-> d[j].close, feat |-> d[j].feat] \in Payloads}
                 : n \in 1..MaxSeriesLen}

PriorContents == {p \in SUBSET {r \in PermRows : [close |-> r.close, feat |-> r.feat] \in Payloads}
                    : PrimaryKey(p)}

\* What the variables of a specification hold in the others.
NotRunAgain == runs = 1 /\ run = 1 /\ nFiles = 0 /\ permDone = {}

NoLoadCall == symArg = 0 /\ dfpArg = <<>> /\ executed = <<>> /\ commits = 0

NoSecondProcess ==
    cfg = "one" /\ tables = <<>> /\ procs = <<>> /\ mergedTimes = <<>> /\ truncated = {}

NoFunctionCall == arg = <<>> /\ ret = <<>>

NoGame == game_states = <<>> /\ historical_data_cache = <<>>

Init ==
    /\ perm \in PriorContents
    /\ stage = EmptyBag
    /\ txPerm = perm
    /\ txStage = stage
    /\ pc = "idle"
    /\ lastOp = "none"
    /\ prePerm = {}
    /\ preStage = EmptyBag
    /\ i = 0
    /\ processed_rows = 0
    /\ raisedBy = "none"
    /\ odd = 0
    /\ mergedAt = {}
    /\ finalMerges = 0
    /\ lastStaged = {}
    /\ cnOpen = TRUE
    /\ listed = {}
    /\ NotRunAgain
    /\ NoLoadCall
    /\ NoSecondProcess
    /\ NoFunctionCall
    /\ NoGame

\* load_stage(cn, symbol, dfp): executemany, then cn.commit().
LoadStage(symbol, dfp) ==
    /\ pc = "idle"
    /\ BagCardinality(stage) + Len(dfp) <= MaxStageRows
    /\ stage' = InsertStage(stage, symbol, dfp, 0)
    /\ txStage' = stage'
    /\ lastOp' = "load"
    /\ prePerm' = {}
    /\ preStage' = EmptyBag
    /\ UNCHANGED <<perm, txPerm, pc>>
    /\ UNCHANGED <<mainVars, loadVars, twoVars, fnVars, gameVars>>

\* merge_stage(cn): cursor().execute(sql) reaches the MERGE statement.
MergeStatement ==
    /\ pc = "idle"
    /\ prePerm' = perm
    /\ preStage' = stage
    /\ UNCHANGED <<mainVars, loadVars, twoVars, fnVars, gameVars>>
    /\ IF MergeRaises(txPerm, txStage)
       THEN /\ lastOp' = "merge_raised"
            /\ UNCHANGED <<perm, stage, txPerm, txStage, pc>>
       ELSE /\ txPerm' = MergeResult(txPerm, txStage)
            /\ perm' = IF AutoCommit THEN txPerm' ELSE perm
            /\ pc' = "merged"
            /\ UNCHANGED <<stage, txStage, lastOp>>

\* ... then TRUNCATE TABLE dbo.processed_stage, in the same batch.
TruncateStatement ==
    /\ pc = "merged"
    /\ txStage' = EmptyBag
    /\ stage' = IF AutoCommit THEN txStage' ELSE stage
    /\ pc' = "truncated"
    /\ UNCHANGED <<perm, txPerm, lastOp, prePerm, preStage>>
    /\ UNCHANGED <<mainVars, loadVars, twoVars, fnVars, gameVars>>

\* cn.commit()
MergeCommit ==
    /\ pc = "truncated"
    /\ perm' = txPerm
    /\ stage' = txStage
    /\ pc' = "idle"
    /\ lastOp' = IF lastOp \in {"merge", "merge_again"} THEN "merge_again" ELSE "merge"
    /\ UNCHANGED <<txPerm, txStage, prePerm, preStage>>
    /\ UNCHANGED <<mainVars, loadVars, twoVars, fnVars, gameVars>>

\* The process dies inside merge_stage: the server rolls the open
\* transaction back.
Crash ==
    /\ pc \in {"merged", "truncated"}
    /\ txPerm' = perm
    /\ txStage' = stage
    /\ pc' = "crashed"
    /\ UNCHANGED <<perm, stage, lastOp, prePerm, preStage>>
    /\ UNCHANGED <<mainVars, loadVars, twoVars, fnVars, gameVars>>

\* A new process opens a new connection.
Restart ==
    /\ pc = "crashed"
    /\ pc' = "idle"
    /\ lastOp' = "none"
    /\ prePerm' = {}
    /\ preStage' = EmptyBag
    /\ UNCHANGED <<perm, stage, txPerm, txStage>>
    /\ UNCHANGED <<mainVars, loadVars, twoVars, fnVars, gameVars>>

Next ==
    \/ \E symbol \in Symbols, dfp \in Series : LoadStage(symbol, dfp)
    \/ MergeStatement
    \/ TruncateStatement
    \/ MergeCommit
    \/ Crash
    \/ Restart

Spec == Init /\ [][Next]_vars

----------------------------------------------------------------------------
(***************************************************************************)
(* SpecMain: main().  The listing is revealed one path at a time: at each  *)
(* turn of the loop the next listed file is drawn, or the list has ended.  *)
(***************************************************************************)
\* name.replace("_raw.csv", "").upper(): a path is the stem of its file
\* name and the case it is written in, and upper() forgets the case.
SymbolOf(path) == path.stem

\* close - close.shift(20): defined from row Lag + 1 on, where both closes are.
Momentum_20(raw, j) ==
    IF j > Lag /\ raw[j].close # NaN /\ raw[j - Lag].close # NaN
    THEN raw[j].close - raw[j - Lag].close
    ELSE NaN

\* compute_features(raw): the rows of raw, each with its derived columns
\* (the stand-in derived column is Momentum_20, null in the first Lag rows).
ComputeFeatures(raw) ==
    [j \in DOMAIN raw |->
        [date |-> raw[j].date, close |-> raw[j].close, feat |-> Momentum_20(raw, j)]]

\* .dropna(subset=["Close"])
HasClose(r) == r.close # NaN

HasEveryColumn(r) == r.close # NaN /\ r.feat # NaN

DropNaAny(df) == SelectSeq(df, HasEveryColumn)

KeepNa(df) == df

DropNaClose(df) == SelectSeq(df, HasClose)

Proc(raw) == DropNaClose(ComputeFeatures(raw))

\* if raw.empty: continue / if proc.empty: continue
RawEmptyOnly(f) == f.raw = <<>>

EmptyResult(f) == f.raw = <<>> \/ Proc(f.raw) = <<>>

\* processed_rows += len(proc)
CountsFiles(proc) == 1

RowsCounted(proc) == Len(proc)

\* The whole merge_stage call on committed tables p and s: what it leaves
\* behind, and whether it raised (dbOk: the server executes the batch).
MergeStageCall(p, s, dbOk) ==
    IF ~dbOk \/ MergeRaises(p, s)
    THEN [raised |-> TRUE, perm |-> p, stage |-> s]
    ELSE [raised |-> FALSE, perm |-> MergeResult(p, s), stage |-> EmptyBag]

\* if i % 40 == 0
ChunkDue(n) == n % K = 0

\* No handler in main catches an exception: it leaves main.
AfterRaiseSwallowed == "loop"

AfterRaise == "raised"

\* The files the listing can hold at position n.
PlainFile(n) ==
    [path |-> [stem |-> n, lower |-> FALSE], readable |-> TRUE,
     raw |-> <<[date |-> 1, close |-> 1]>>]

OddFiles(n) ==
    {[path |-> [stem |-> n, lower |-> FALSE], readable |-> FALSE, raw |-> <<>>],
     [path |-> [stem |-> n, lower |-> FALSE], readable |-> TRUE, raw |-> <<>>],
     [path |-> [stem |-> n, lower |-> FALSE], readable |-> TRUE,
      raw |-> <<[date |-> 1, close |-> NaN]>>],
     [path |-> [stem |-> n, lower |-> FALSE], readable |-> TRUE,
      raw |-> <<[date |-> 1, close |-> 1], [date |-> 1, close |-> 2]>>],
     [path |-> [stem |-> 1, lower |-> TRUE], readable |-> TRUE,
      raw |-> <<[date |-> 1, close |-> 2]>>],
     [path |-> [stem |-> n, lower |-> FALSE], readable |-> TRUE,
      raw |-> <<[date |-> 1, close |-> NaN], [date |-> 2, close |-> 1],
                [date |-> 3, close |-> 2]>>]}

\* Where in the listing the files that are not plain may stand: next to
\* the start of the list and next to the first chunk boundary.
OddPositions == {1, 2, K - 1, K, K + 1, K + 2}

ListedAt(n, o) ==
    {PlainFile(n)} \cup
        (IF o < (IF runs = 1 THEN MaxOdd ELSE MaxOddTwice) /\ n \in OddPositions
         THEN OddFiles(n) ELSE {})

OddAfter(f, n, o) == IF f = PlainFile(n) THEN o ELSE o + 1

\* The listing as far as it is known: ls holds the files that are not plain.
FileAt(ls, n) ==
    IF \E e \in ls : e[1] = n THEN (CHOOSE e \in ls : e[1] = n)[2] ELSE PlainFile(n)

Recorded(ls, n, f) == IF f = PlainFile(n) THEN ls ELSE ls \cup {<<n, f>>}

\* paths = list_raw_csvs(): the files paths can hold at position n.  The
\* first run reveals the listing, a second run finds the same listing.
Paths(n) ==
    IF run = 1
    THEN IF n <= MaxFiles THEN ListedAt(n, odd) ELSE {}
    ELSE IF n <= nFiles THEN {FileAt(listed, n)} ELSE {}

\* The for loop has no path left.
ListTaken == run = 1 \/ i = nFiles

\* Per key, the values staged last: the rows of proc override in order.
RECURSIVE StagedLast(_, _, _)
StagedLast(ls, symbol, proc) ==
    IF proc = <<>> THEN ls
    ELSE LET r == Cols(StageRow(symbol, Head(proc), 0))
         IN  StagedLast({t \in ls : Key(t) # Key(r)} \cup {r}, symbol, Tail(proc))

MainPrior == {p \in PriorContents : Keys(p) \subseteq {<<1, 1>>}}

InitMain ==
    /\ perm \in MainPrior
    /\ stage = EmptyBag
    /\ txPerm = perm
    /\ txStage = stage
    /\ pc = "loop"
    /\ lastOp = "none"
    /\ prePerm = {}
    /\ preStage = EmptyBag
    /\ i = 0
    /\ processed_rows = 0
    /\ raisedBy = "none"
    /\ odd = 0
    /\ mergedAt = {}
    /\ finalMerges = 0
    /\ lastStaged = {}
    /\ cnOpen = TRUE
    /\ listed = {}
    /\ NotRunAgain
    /\ NoLoadCall
    /\ NoSecondProcess
    /\ NoFunctionCall
    /\ NoGame

\* raw = read_raw_csv(abfs_path) raises: fs.open finds no object, read_csv
\* cannot parse the bytes, or df[[...]] misses a column.
ReadRaises(f) ==
    /\ pc = "loop"
    /\ f \in Paths(i + 1)
    /\ ~f.readable
    /\ i' = i + 1
    /\ odd' = OddAfter(f, i + 1, odd)
    /\ listed' = Recorded(listed, i + 1, f)
    /\ pc' = AfterRaise
    /\ raisedBy' = "read_raw_csv"
    /\ UNCHANGED <<dbVars, histVars, processed_rows, mergedAt, finalMerges, lastStaged,
                   cnOpen, runVars, loadVars, twoVars, fnVars, gameVars>>

\* if raw.empty: continue / if proc.empty: continue
SkipFile(f) ==
    /\ pc = "loop"
    /\ f \in Paths(i + 1)
    /\ f.readable
    /\ EmptyResult(f)
    /\ i' = i + 1
    /\ odd' = OddAfter(f, i + 1, odd)
    /\ listed' = Recorded(listed, i + 1, f)
    /\ UNCHANGED <<dbVars, histVars, pc, processed_rows, raisedBy, mergedAt,
                   finalMerges, lastStaged, cnOpen, runVars, loadVars, twoVars, fnVars, gameVars>>

\* load_stage(cn, symbol, proc) raises: the server fails the INSERT, and
\* the rows it took are rolled back with the connection.
LoadRaises(f) ==
    /\ pc = "loop"
    /\ f \in Paths(i + 1)
    /\ f.readable
    /\ ~EmptyResult(f)
    /\ i' = i + 1
    /\ odd' = OddAfter(f, i + 1, odd)
    /\ listed' = Recorded(listed, i + 1, f)
    /\ pc' = AfterRaise
    /\ raisedBy' = "load_stage"
    /\ UNCHANGED <<dbVars, histVars, processed_rows, mergedAt, finalMerges, lastStaged,
                   cnOpen, runVars, loadVars, twoVars, fnVars, gameVars>>

\* load_stage(cn, symbol, proc); processed_rows += len(proc); no merge is
\* due at this index.
StageFile(f) ==
    /\ pc = "loop"
    /\ f \in Paths(i + 1)
    /\ f.readable
    /\ ~EmptyResult(f)
    /\ ~ChunkDue(i + 1)
    /\ i' = i + 1
    /\ odd' = OddAfter(f, i + 1, odd)
    /\ listed' = Recorded(listed, i + 1, f)
    /\ stage' = InsertStage(stage, SymbolOf(f.path), Proc(f.raw), i + 1)
    /\ txStage' = stage'
    /\ processed_rows' = processed_rows + RowsCounted(Proc(f.raw))
    /\ lastStaged' = StagedLast(lastStaged, SymbolOf(f.path), Proc(f.raw))
    /\ UNCHANGED <<perm, txPerm, histVars, pc, raisedBy, mergedAt, finalMerges,
                   cnOpen, runVars, loadVars, twoVars, fnVars, gameVars>>

\* load_stage(cn, symbol, proc); processed_rows += len(proc);
\* if i % 40 == 0: merge_stage(cn)
StageAndMerge(f, dbOk) ==
    /\ pc = "loop"
    /\ f \in Paths(i + 1)
    /\ f.readable
    /\ ~EmptyResult(f)
    /\ ChunkDue(i + 1)
    /\ i' = i + 1
    /\ odd' = OddAfter(f, i + 1, odd)
    /\ listed' = Recorded(listed, i + 1, f)
    /\ processed_rows' = processed_rows + RowsCounted(Proc(f.raw))
    /\ lastStaged' = StagedLast(lastStaged, SymbolOf(f.path), Proc(f.raw))
    /\ mergedAt' = mergedAt \cup {i + 1}
    /\ LET staged == InsertStage(stage, SymbolOf(f.path), Proc(f.raw), i + 1)
           m == MergeStageCall(perm, staged, dbOk)
       IN  /\ perm' = m.perm
           /\ stage' = m.stage
           /\ txPerm' = perm'
           /\ txStage' = stage'
           /\ pc' = IF m.raised THEN AfterRaise ELSE pc
           /\ raisedBy' = IF m.raised THEN "merge_stage" ELSE raisedBy
    /\ UNCHANGED <<histVars, finalMerges, cnOpen, runVars, loadVars, twoVars, fnVars, gameVars>>

NoFinalMerge(dbOk) ==
    /\ pc = "loop"
    /\ pc' = "done"
    /\ UNCHANGED <<dbVars, histVars, mainVars, loadVars, twoVars, fnVars, gameVars>>

\* The loop has taken every listed file: merge_stage(cn); cn.close();
\* print the total.
FinalMerge(dbOk) ==
    /\ pc = "loop"
    /\ ListTaken
    /\ finalMerges' = finalMerges + 1
    /\ LET m == MergeStageCall(perm, stage, dbOk)
       IN  /\ perm' = m.perm
           /\ stage' = m.stage
           /\ txPerm' = perm'
           /\ txStage' = stage'
           /\ pc' = IF m.raised THEN AfterRaise ELSE "done"
           /\ raisedBy' = IF m.raised THEN "merge_stage" ELSE raisedBy
           /\ cnOpen' = IF m.raised THEN cnOpen ELSE FALSE
    /\ UNCHANGED <<histVars, i, processed_rows, odd, mergedAt, lastStaged, listed,
                   runVars, loadVars, twoVars, fnVars, gameVars>>

NextMain ==
    \/ \E f \in Paths(i + 1) : ReadRaises(f)
    \/ \E f \in Paths(i + 1) : SkipFile(f)
    \/ \E f \in Paths(i + 1) : LoadRaises(f)
    \/ \E f \in Paths(i + 1) : StageFile(f)
    \/ \E f \in Paths(i + 1), dbOk \in BOOLEAN : StageAndMerge(f, dbOk)
    \/ \E dbOk \in BOOLEAN : FinalMerge(dbOk)

SpecMain == InitMain /\ [][NextMain]_vars

----------------------------------------------------------------------------
(***************************************************************************)
(* SpecTwice: main() is started again after it reached Done, over the      *)
(* same raw files.                                                         *)
(***************************************************************************)
Rerun ==
    /\ pc = "done"
    /\ run < runs
    /\ run' = run + 1
    /\ nFiles' = i
    /\ permDone' = perm
    /\ pc' = "loop"
    /\ i' = 0
    /\ processed_rows' = 0
    /\ cnOpen' = TRUE
    /\ mergedAt' = {}
    /\ finalMerges' = 0
    /\ lastStaged' = {}
    /\ UNCHANGED <<dbVars, histVars, raisedBy, odd, listed, runs, loadVars, twoVars, fnVars, gameVars>>

NextTwice == NextMain \/ Rerun

InitTwice ==
    /\ perm \in MainPrior
    /\ stage = EmptyBag
    /\ txPerm = perm
    /\ txStage = stage
    /\ pc = "loop"
    /\ lastOp = "none"
    /\ prePerm = {}
    /\ preStage = EmptyBag
    /\ i = 0
    /\ processed_rows = 0
    /\ raisedBy = "none"
    /\ odd = 0
    /\ mergedAt = {}
    /\ finalMerges = 0
    /\ lastStaged = {}
    /\ cnOpen = TRUE
    /\ listed = {}
    /\ runs = 2 /\ run = 1 /\ nFiles = 0 /\ permDone = {}
    /\ NoLoadCall
    /\ NoSecondProcess
    /\ NoFunctionCall
    /\ NoGame

SpecTwice == InitTwice /\ [][NextTwice]_vars

----------------------------------------------------------------------------
(***************************************************************************)
(* SpecLoad: one load_stage(cn, symbol, dfp) call and the merge_stage(cn)  *)
(* call after it, one cursor or connection call per step.                  *)
(***************************************************************************)
\* What a numeric column of dfp can hold.
LoadValues == {1, 2, NaN, PosInf, NegInf}

\* The rows of dfp: at most one of the two columns is other than 1.
LoadRows ==
    {r \in [date : Dates, close : LoadValues, feat : LoadValues] : r.close = 1 \/ r.feat = 1}

LoadSeries == UNION {[1..n -> LoadRows] : n \in 1..MaxSeriesLen}

\* The staging table before the call: empty, or one row of an earlier call.
StagedBefore ==
    {EmptyBag, SetToBag({StageRow(1, [date |-> 1, close |-> 1, feat |-> 1], 0)})}

InitLoad ==
    /\ perm \in MainPrior
    /\ stage \in StagedBefore
    /\ txPerm = perm
    /\ txStage = stage
    /\ pc = "load_stage"
    /\ symArg \in Symbols
    /\ dfpArg \in LoadSeries
    /\ executed = <<>>
    /\ commits = 0
    /\ lastOp = "none"
    /\ prePerm = {}
    /\ preStage = EmptyBag
    /\ i = 0
    /\ processed_rows = 0
    /\ raisedBy = "none"
    /\ odd = 0
    /\ mergedAt = {}
    /\ finalMerges = 0
    /\ lastStaged = {}
    /\ cnOpen = TRUE
    /\ listed = {}
    /\ NotRunAgain
    /\ NoSecondProcess
    /\ NoFunctionCall
    /\ NoGame

\* rows = [...]; cur.fast_executemany = True; cur.executemany(INSERT ..., rows)
LoadExecuteMany ==
    /\ pc = "load_stage"
    /\ executed' = executed \o LoadStatements(dfpArg)
    /\ txStage' = InsertStage(txStage, symArg, dfpArg, 0)
    /\ pc' = "load_executed"
    /\ UNCHANGED <<perm, stage, txPerm, symArg, dfpArg, commits, histVars, mainVars, twoVars, fnVars, gameVars>>

\* cn.commit(), and load_stage returns.
LoadCommit ==
    /\ pc = "load_executed"
    /\ stage' = txStage
    /\ commits' = commits + 1
    /\ pc' = "load_returned"
    /\ UNCHANGED <<perm, txPerm, txStage, symArg, dfpArg, executed, histVars, mainVars, twoVars, fnVars, gameVars>>

\* merge_stage(cn): cn.cursor().execute(sql), the batch of MERGE and TRUNCATE.
MergeExecute ==
    /\ pc = "load_returned"
    /\ executed' = <<[op |-> "execute", n |-> 0]>>
    /\ commits' = 0
    /\ IF MergeRaises(txPerm, txStage)
       THEN /\ pc' = "merge_raised"
            /\ UNCHANGED <<txPerm, txStage>>
       ELSE /\ txPerm' = MergeResult(txPerm, txStage)
            /\ txStage' = EmptyBag
            /\ pc' = "merge_executed"
    /\ UNCHANGED <<perm, stage, symArg, dfpArg, histVars, mainVars, twoVars, fnVars, gameVars>>

\* cn.commit(), and merge_stage returns.
MergeCommitCall ==
    /\ pc = "merge_executed"
    /\ perm' = txPerm
    /\ stage' = txStage
    /\ commits' = commits + 1
    /\ pc' = "merge_returned"
    /\ UNCHANGED <<txPerm, txStage, symArg, dfpArg, executed, histVars, mainVars, twoVars, fnVars, gameVars>>

NextLoad == LoadExecuteMany \/ LoadCommit \/ MergeExecute \/ MergeCommitCall

SpecLoad == InitLoad /\ [][NextLoad]_vars

----------------------------------------------------------------------------
(***************************************************************************)
(* SpecTwo: two processes run the pipeline against one database, each      *)
(* over its own files.  A process stages a file with load_stage (which     *)
(* commits) and merges with merge_stage: the MERGE statement reads the     *)
(* staging table, and the TRUNCATE with the commit after it empties the    *)
(* table as it then is.  The deployment says whether the processes run at  *)
(* the same time and which staging table each of them uses.                *)
(***************************************************************************)
Procs == {1, 2}

Deployments == {"shared", "distinct", "serialized"}

\* The staging table of process p: dbo.processed_stage for every process,
\* or a table of its own where the deployment gives it one.
StageTableOf(c, p) == IF c = "distinct" THEN p ELSE 1

\* Serialized processes run one after the other.
MayStep(p) ==
    cfg = "serialized" => \A q \in Procs \ {p} : procs[q].pc \in {"idle", "done"}

\* The n-th file of process p: one row, staged under the symbol p; the
\* row's history tag is RowId(p, n).
RowId(p, n) == (p - 1) * MaxLoads + n

RowIds == 1..(2 * MaxLoads)

DfpOf(n) == <<[date |-> n, close |-> 1, feat |-> NaN]>>

IdsOf(s) == {r.file : r \in BagToSet(s)}

\* TRUNCATE TABLE dbo.processed_stage
TruncateSkipped(s) == s

TruncateTable(s) == EmptyBag

InitTwo ==
    /\ cfg \in Deployments
    /\ tables = [t \in Procs |-> EmptyBag]
    /\ procs = [p \in Procs |-> [pc |-> "idle", loads |-> 0, src |-> EmptyBag, final |-> FALSE]]
    /\ mergedTimes = [id \in RowIds |-> 0]
    /\ truncated = {}
    /\ perm = {}
    /\ stage = EmptyBag
    /\ txPerm = perm
    /\ txStage = stage
    /\ pc = "two"
    /\ lastOp = "none"
    /\ prePerm = {}
    /\ preStage = EmptyBag
    /\ i = 0
    /\ processed_rows = 0
    /\ raisedBy = "none"
    /\ odd = 0
    /\ mergedAt = {}
    /\ finalMerges = 0
    /\ lastStaged = {}
    /\ cnOpen = TRUE
    /\ listed = {}
    /\ NotRunAgain
    /\ NoLoadCall
    /\ NoFunctionCall
    /\ NoGame

\* load_stage(cn, symbol, proc) of process p, with its commit.
TwoLoad(p) ==
    /\ procs[p].pc \in {"idle", "run"}
    /\ procs[p].loads < MaxLoads
    /\ MayStep(p)
    /\ tables' = [tables EXCEPT ![StageTableOf(cfg, p)] =
                      InsertStage(@, p, DfpOf(procs[p].loads + 1), RowId(p, procs[p].loads + 1))]
    /\ procs' = [procs EXCEPT ![p].pc = "run", ![p].loads = @ + 1]
    /\ UNCHANGED <<dbVars, pc, histVars, mainVars, loadVars, fnVars, gameVars, cfg, mergedTimes, truncated>>

\* merge_stage(cn) of process p, a chunk merge or (final) the merge after
\* the loop: the MERGE statement reads the staging table.
TwoMerge(p, final) ==
    /\ procs[p].pc \in {"idle", "run"}
    /\ final \/ procs[p].loads < MaxLoads
    /\ MayStep(p)
    /\ procs' = [procs EXCEPT ![p].pc = "merged", ![p].src = tables[StageTableOf(cfg, p)],
                              ![p].final = final]
    /\ UNCHANGED <<dbVars, pc, histVars, mainVars, loadVars, fnVars, gameVars, cfg, tables, mergedTimes, truncated>>

\* ... the TRUNCATE of the batch and cn.commit(): the permanent table
\* takes what the MERGE read, the staging table loses what it holds now.
TwoTruncateCommit(p) ==
    /\ procs[p].pc = "merged"
    /\ perm' = MergeResult(perm, procs[p].src)
    /\ txPerm' = perm'
    /\ tables' = [tables EXCEPT ![StageTableOf(cfg, p)] = TruncateTable(@)]
    /\ mergedTimes' = [id \in RowIds |->
                          IF id \in IdsOf(procs[p].src) THEN mergedTimes[id] + 1
                          ELSE mergedTimes[id]]
    /\ truncated' = truncated \cup
                        (IdsOf(tables[StageTableOf(cfg, p)]) \ IdsOf(tables'[StageTableOf(cfg, p)]))
    /\ procs' = [procs EXCEPT ![p].pc = IF procs[p].final THEN "done" ELSE "run",
                              ![p].src = EmptyBag]
    /\ UNCHANGED <<stage, txStage, pc, histVars, mainVars, loadVars, fnVars, gameVars, cfg>>

NextTwo ==
    \/ \E p \in Procs : TwoLoad(p)
    \/ \E p \in Procs, final \in BOOLEAN : TwoMerge(p, final)
    \/ \E p \in Procs : TwoTruncateCommit(p)

SpecTwo == InitTwo /\ [][NextTwo]_vars

----------------------------------------------------------------------------
(***************************************************************************)
(* The specifications of one function call leave the tables, the driver    *)
(* and the other processes out.                                            *)
(***************************************************************************)
NoPipeline ==
    /\ perm = {}
    /\ stage = EmptyBag
    /\ txPerm = perm
    /\ txStage = stage
    /\ lastOp = "none"
    /\ prePerm = {}
    /\ preStage = EmptyBag
    /\ i = 0
    /\ processed_rows = 0
    /\ raisedBy = "none"
    /\ odd = 0
    /\ mergedAt = {}
    /\ finalMerges = 0
    /\ lastStaged = {}
    /\ cnOpen = TRUE
    /\ listed = {}
    /\ NotRunAgain
    /\ NoLoadCall
    /\ NoSecondProcess

pipelineVars == <<dbVars, histVars, mainVars, loadVars, twoVars>>

----------------------------------------------------------------------------
(***************************************************************************)
(* SpecStart: the pipeline starts under an environment.  The module is     *)
(* imported (the ADLS settings are read and the filesystem is made), main  *)
(* calls get_conn and then list_raw_csvs.                                  *)
(***************************************************************************)
AdlsSettings ==
    {"AZURE_STORAGE_ACCOUNT", "AZURE_STORAGE_KEY", "ADLS_CONTAINER", "ADLS_RAW_PREFIX"}

SqlSettings == {"SQL_SERVER", "SQL_DB", "SQL_UID", "SQL_PWD"}

Settings == AdlsSettings \cup SqlSettings

\* os.getenv(name, default): the value given, or the default ("None": none).
Getenv(env, name, default) == IF name \in env THEN "given" ELSE default

\* ACCOUNT, ACCOUNT_KEY, CONTAINER, RAW_PREFIX of the module.
Config(env) ==
    [ACCOUNT     |-> Getenv(env, "AZURE_STORAGE_ACCOUNT", "None"),
     ACCOUNT_KEY |-> Getenv(env, "AZURE_STORAGE_KEY", "None"),
     CONTAINER   |-> Getenv(env, "ADLS_CONTAINER", "raw"),
     RAW_PREFIX  |-> Getenv(env, "ADLS_RAW_PREFIX", "asxStocks")]

\* The filesystem has an account name and a key to work with.
HasCredentials(c) == c.ACCOUNT # "None" /\ c.ACCOUNT_KEY # "None"

\* _need(name) for each of the four names of get_conn: none raises.
NeedsMet(env) == SqlSettings \subseteq env

InitStart ==
    /\ arg \in SUBSET Settings
    /\ ret = [config |-> <<>>, raised |-> "none"]
    /\ pc = "import"
    /\ NoPipeline
    /\ NoGame

\* The module body: the four os.getenv calls and fsspec.filesystem("abfs",
\* ...).  What the filesystem does without an account name or a key is
\* not in this repository: it raises here (fsOk false), or later, or never.
ImportModule(fsOk) ==
    /\ pc = "import"
    /\ IF fsOk \/ HasCredentials(Config(arg))
       THEN /\ pc' = "imported"
            /\ ret' = [ret EXCEPT !.config = Config(arg)]
       ELSE /\ pc' = "raised"
            /\ ret' = [ret EXCEPT !.raised = "fsspec.filesystem"]
    /\ UNCHANGED <<arg, pipelineVars, gameVars>>

\* main: cn = get_conn()
GetConn ==
    /\ pc = "imported"
    /\ IF NeedsMet(arg)
       THEN /\ pc' = "connected"
            /\ UNCHANGED ret
       ELSE /\ pc' = "raised"
            /\ ret' = [ret EXCEPT !.raised = "_need"]
    /\ UNCHANGED <<arg, pipelineVars, gameVars>>

\* main: paths = list_raw_csvs()
ListRawCsvs(globOk) ==
    /\ pc = "connected"
    /\ IF globOk \/ HasCredentials(ret.config)
       THEN /\ pc' = "listed"
            /\ UNCHANGED ret
       ELSE /\ pc' = "raised"
            /\ ret' = [ret EXCEPT !.raised = "fs.glob"]
    /\ UNCHANGED <<arg, pipelineVars, gameVars>>

NextStart ==
    \/ \E fsOk \in BOOLEAN : ImportModule(fsOk)
    \/ GetConn
    \/ \E globOk \in BOOLEAN : ListRawCsvs(globOk)

SpecStart == InitStart /\ [][NextStart]_vars

----------------------------------------------------------------------------
(***************************************************************************)
(* SpecRead: one call of read_raw_csv.  The argument is the file as        *)
(* read_csv, to_datetime(utc=True).dt.date and to_numeric leave it:        *)
(* whether it has the six columns, and per row the UTC date (NaT where     *)
(* Date does not parse) and the close.                                     *)
(***************************************************************************)
FileRows == [date : {NaT, 1, 2}, close : {1, 2}]

RawFiles ==
    [columns : BOOLEAN, rows : UNION {[1..n -> FileRows] : n \in 0..MaxRawRows}]

HasDate(r) == r.date # NaT

\* df.dropna(subset=["date"])
DropNaDate(df) == SelectSeq(df, HasDate)

IsSortedByDate(df) == \A j \in 1..(Len(df) - 1) : df[j].date <= df[j + 1].date

BagOfSeq(sq) ==
    [x \in {sq[j] : j \in DOMAIN sq} |-> Cardinality({j \in DOMAIN sq : sq[j] = x})]

\* df.sort_values("date").reset_index(drop=True): the rows of df in an
\* order ascending by date (the default sort is not stable: rows of one
\* date come in any order).
SortValues(df) ==
    {sq \in [1..Len(df) -> {df[j] : j \in DOMAIN df}] :
        IsSortedByDate(sq) /\ BagOfSeq(sq) = BagOfSeq(df)}

InitRead ==
    /\ arg \in RawFiles
    /\ ret = <<>>
    /\ pc = "call"
    /\ NoPipeline
    /\ NoGame

\* df[["Open","High","Low","Close","Volume","Date"]] raises KeyError
\* where a column is missing.
ReadRaisesKeyError ==
    /\ pc = "call"
    /\ ~arg.columns
    /\ pc' = "raised"
    /\ UNCHANGED <<arg, ret, pipelineVars, gameVars>>

ReadRawCsv ==
    /\ pc = "call"
    /\ arg.columns
    /\ ret' \in SortValues(DropNaDate(arg.rows))
    /\ pc' = "returned"
    /\ UNCHANGED <<arg, pipelineVars, gameVars>>

NextRead == ReadRaisesKeyError \/ ReadRawCsv

SpecRead == InitRead /\ [][NextRead]_vars

----------------------------------------------------------------------------
(***************************************************************************)
(* SpecSymbol: the symbol main derives from a file name, for two file      *)
(* names of one listing.  A name is a sequence of pieces: letters, the     *)
(* text "_raw.csv" and the text ".csv"; fs.glob("*.csv") lists names       *)
(* that end in ".csv".                                                     *)
(***************************************************************************)
Suffix == "_raw.csv"

Pieces == {"a", "A", "b", Suffix, ".csv"}

FileNames ==
    {n \in UNION {[1..l -> Pieces] : l \in 1..MaxNameLen} :
        n[Len(n)] \in {Suffix, ".csv"}}

NotSuffix(t) == t # Suffix

\* name.replace("_raw.csv", ""): every occurrence is removed.
ReplaceSuffix(name) == SelectSeq(name, NotSuffix)

UpperPiece(t) ==
    CASE t = "a" -> "A"
      [] t = "b" -> "B"
      [] t = Suffix -> "_RAW.CSV"
      [] t = ".csv" -> ".CSV"
      [] OTHER -> t

\* str.upper()
Upper(name) == [j \in DOMAIN name |-> UpperPiece(name[j])]

ReplaceTrailing(name) ==
    IF name[Len(name)] = Suffix THEN SubSeq(name, 1, Len(name) - 1) ELSE name

SymbolOfName(name) == Upper(ReplaceSuffix(name))

InitSymbol ==
    /\ arg \in FileNames \X FileNames
    /\ ret = <<>>
    /\ pc = "call"
    /\ NoPipeline
    /\ NoGame

DeriveSymbols ==
    /\ pc = "call"
    /\ ret' = <<SymbolOfName(arg[1]), SymbolOfName(arg[2])>>
    /\ pc' = "returned"
    /\ UNCHANGED <<arg, pipelineVars, gameVars>>

NextSymbol == DeriveSymbols

SpecSymbol == InitSymbol /\ [][NextSymbol]_vars

----------------------------------------------------------------------------
(***************************************************************************)
(* SpecFeat: one call of compute_features.  A float64 cell is a number in  *)
(* fixed point (Scale units to 1.0), NaN, or an infinity with its sign;    *)
(* the arithmetic is IEEE's: NaN propagates, x/0 is an infinity for        *)
(* x # 0 and NaN for x = 0.                                                *)
(***************************************************************************)
Scale == 100

F(n) == [k |-> "num", v |-> n]

NanF == [k |-> "nan", v |-> 0]

InfF(sign) == [k |-> "inf", v |-> sign]

IsNum(c) == c.k = "num"

\* pd.isna
IsNa(c) == c.k = "nan"

Sign(n) == IF n < 0 THEN -1 ELSE 1

Neg(c) == IF IsNa(c) THEN NanF ELSE [k |-> c.k, v |-> -c.v]

Add(a, b) ==
    CASE IsNa(a) \/ IsNa(b) -> NanF
      [] IsNum(a) /\ IsNum(b) -> F(a.v + b.v)
      [] IsNum(a) -> b
      [] IsNum(b) -> a
      [] OTHER -> IF a.v = b.v THEN a ELSE NanF

Sub(a, b) == Add(a, Neg(b))

\* a / b on floats
Div(a, b) ==
    CASE IsNa(a) \/ IsNa(b) -> NanF
      [] IsNum(a) /\ IsNum(b) ->
            IF b.v = 0
            THEN IF a.v = 0 THEN NanF ELSE InfF(Sign(a.v))
            ELSE IF b.v > 0 THEN F((a.v * Scale) \div b.v)
                 ELSE F(((-a.v) * Scale) \div (-b.v))
      [] IsNum(a) -> F(0)
      [] IsNum(b) -> InfF(a.v * Sign(b.v))
      [] OTHER -> NanF

\* k * c for an integer k > 0
Times(k, c) == IF IsNum(c) THEN F(k * c.v) ELSE c

RECURSIVE SumV(_, _, _)
SumV(x, lo, hi) == IF lo > hi THEN 0 ELSE x[lo].v + SumV(x, lo + 1, hi)

RECURSIVE SumSqDev(_, _, _, _)
SumSqDev(x, lo, hi, base) ==
    IF lo > hi THEN 0
    ELSE (x[lo].v - base) * (x[lo].v - base) + SumSqDev(x, lo + 1, hi, base)

RECURSIVE IsqrtFrom(_, _)
IsqrtFrom(n, r) == IF (r + 1) * (r + 1) > n THEN r ELSE IsqrtFrom(n, r + 1)

RECURSIVE Isqrt(_)
Isqrt(n) == IF n < 4 THEN IsqrtFrom(n, 0) ELSE IsqrtFrom(n, 2 * Isqrt(n \div 4))

\* rolling(N).mean(), were min_periods 1: the mean of the rows there are.
RollingMeanPartial(x, N, t) ==
    LET lo == IF t > N THEN t - N + 1 ELSE 1
    IN  IF \A j \in lo..t : IsNum(x[j])
        THEN F(SumV(x, lo, t) \div (t - lo + 1))
        ELSE NanF

\* Series.shift(n), were it to shift one row less.
ShiftOneLess(x, n, t) == IF t > n - 1 THEN x[t - n + 1] ELSE NanF

\* Series.rolling(N): min_periods is N, so the window of row t is rows
\* t-N+1..t and gives NaN unless it holds N numbers.
FullWindow(x, N, t) == t >= N /\ \A j \in (t - N + 1)..t : IsNum(x[j])

\* rolling(N).mean() at row t (rows from 1)
RollingMean(x, N, t) ==
    IF FullWindow(x, N, t) THEN F(SumV(x, t - N + 1, t) \div N) ELSE NanF

\* rolling(N).std(ddof) at row t: the square root of the sum of squared
\* deviations from the window mean over N - ddof, computed exactly from
\* the deviations d from the first value of the window:
\* (N * sum d^2 - (sum d)^2) / (N * (N - ddof)).
RollingStdDdof(x, N, t, ddof) ==
    IF FullWindow(x, N, t)
    THEN LET lo == t - N + 1
             base == x[lo].v
             sd == SumV(x, lo, t) - N * base
             sq == SumSqDev(x, lo, t, base)
         IN  F(Isqrt((N * sq - sd * sd) \div (N * (N - ddof))))
    ELSE NanF

\* rolling(N).std(): pandas' default ddof is 1
RollingStd(x, N, t) == RollingStdDdof(x, N, t, 1)

\* Series.shift(n) at row t
Shift(x, n, t) == IF t > n THEN x[t - n] ELSE NanF

RECURSIVE Pow(_, _)
Pow(b, n) == IF n = 0 THEN 1 ELSE b * Pow(b, n - 1)

\* The rows t..Len(x) of Series.ewm(span, adjust=False).mean(), y being
\* the rows before t, avg the running average and g the NaN rows since
\* the last number.  alpha = 2/(span+1).  The first number seeds the
\* average; a NaN row repeats it; after g NaN rows (ignore_na=False) the
\* old average weighs (1-alpha)^(g+1) against alpha for the new value.
RECURSIVE EwmFrom(_, _, _, _, _, _)
EwmFrom(x, span, t, y, avg, g) ==
    IF t > Len(x) THEN y
    ELSE LET cur == x[t]
             old == Pow(span - 1, g + 1)
             new == 2 * Pow(span + 1, g)
             nxt == IF IsNum(avg)
                    THEN IF IsNum(cur)
                         THEN F((old * avg.v + new * cur.v) \div (old + new))
                         ELSE avg
                    ELSE cur
             g2 == IF IsNum(avg) /\ ~IsNum(cur) THEN g + 1 ELSE 0
         IN  EwmFrom(x, span, t + 1, Append(y, nxt), nxt, g2)

EwmMean(x, span) ==
    IF Len(x) = 0 THEN <<>> ELSE EwmFrom(x, span, 2, <<x[1]>>, x[1], 0)

\* Series.ffill() at row t (row 0: nothing before the series)
RECURSIVE Ffill(_, _)
Ffill(x, t) ==
    IF t = 0 THEN NanF ELSE IF IsNa(x[t]) THEN Ffill(x, t - 1) ELSE x[t]

\* Series.pct_change() at row t.  Its fill_method default is "pad" in
\* the pandas releases before 3.0 and no filling from 3.0 on; the
\* repository pins no release, so pad is either.
PctChange(x, pad, t) ==
    LET cur == IF pad THEN Ffill(x, t) ELSE x[t]
        prev == IF pad THEN Ffill(x, t - 1) ELSE Shift(x, 1, t)
    IN  Sub(Div(cur, prev), F(Scale))

\* Series.fillna(v)
Fillna(c, v) == IF IsNa(c) THEN F(v) ELSE c

\* Series.replace([np.inf, -np.inf], np.nan)
ReplaceInf(c) == IF c.k = "inf" THEN NanF ELSE c

\* np.log: NaN below zero, -inf at zero; for a number above zero the
\* logarithm to the first term of its series, 2(r-1)/(r+1).
Log(c) ==
    CASE IsNa(c) -> NanF
      [] c.k = "inf" -> IF c.v > 0 THEN c ELSE NanF
      [] c.v < 0 -> NanF
      [] c.v = 0 -> InfF(-1)
      [] OTHER -> F((2 * Scale * (c.v - Scale)) \div (c.v + Scale))

\* df after the column assignments of compute_features; Open, High and
\* Low pass through as Close and Volume do and are left out.
WithColumns(df, pad) ==
    LET n == Len(df)
        close == [t \in 1..n |-> df[t].Close]
        vol == [t \in 1..n |-> df[t].Volume]
        Ema_12 == EwmMean(close, 12)
        Ema_26 == EwmMean(close, 26)
        Macd == [t \in 1..n |-> Sub(Ema_12[t], Ema_26[t])]
        Macd_Signal == EwmMean(Macd, 9)
        Log_Returns ==
            [t \in 1..n |->
                Fillna(ReplaceInf(Log(Div(close[t], Shift(close, 1, t)))), 0)]
    IN  [t \in 1..n |->
            LET mid == RollingMean(close, 20, t)
                std20 == RollingStd(close, 20, t)
                Volume_Sma_20 == RollingMean(vol, 20, t)
            IN  [Close |-> close[t],
                 Volume |-> vol[t],
                 date |-> df[t].date,
                 Sma_5 |-> RollingMean(close, 5, t),
                 Sma_10 |-> RollingMean(close, 10, t),
                 Sma_20 |-> RollingMean(close, 20, t),
                 Sma_50 |-> RollingMean(close, 50, t),
                 Sma_200 |-> RollingMean(close, 200, t),
                 Ema_12 |-> Ema_12[t],
                 Ema_26 |-> Ema_26[t],
                 Macd |-> Macd[t],
                 Macd_Signal |-> Macd_Signal[t],
                 Macd_Hist |-> Sub(Macd[t], Macd_Signal[t]),
                 Bb_Middle |-> mid,
                 Bb_Upper |-> Add(mid, Times(2, std20)),
                 Bb_Lower |-> Sub(mid, Times(2, std20)),
                 Returns |-> Fillna(PctChange(close, pad, t), 0),
                 Log_Returns |-> Log_Returns[t],
                 Volatility_20 |-> RollingStd(Log_Returns, 20, t),
                 Momentum_20 |-> Sub(close[t], Shift(close, 20, t)),
                 Volume_Sma_20 |-> Volume_Sma_20,
                 Volume_Ratio |-> Div(vol[t], Volume_Sma_20)]]

HasSma_5(r) == IsNum(r.Sma_5)

\* compute_features, were it to drop the rows of the warm-up.
DropsWarmUp(df, pad) == SelectSeq(WithColumns(df, pad), HasSma_5)

\* out = df[[...]]; return out: every row, the columns in their order.
compute_features(df, pad) == WithColumns(df, pad)

\* The series compute_features is called with: what read_raw_csv
\* returns, rows in ascending order of date, Close and Volume each a
\* number or NaN (to_numeric, errors="coerce").  Short series are drawn
\* cell by cell; the series long enough for the windows follow a pattern
\* for each column.
ShortRows == [Close : {NanF, F(0), F(Scale), F(2 * Scale)}, Volume : {F(Scale)}]

ShortSeries ==
    UNION {{[t \in 1..n |-> [date |-> t, Close |-> c[t].Close,
                              Volume |-> c[t].Volume]] :
                c \in [1..n -> ShortRows]} : n \in 0..MaxShortRows}

ClosePatterns == {"rising", "flat", "zigzag", "null"}

VolumePatterns == {"ones", "zeros", "signs", "null", "late"}

DatePatterns == {"daily", "gap"}

CloseAt(p, t) ==
    CASE p = "rising" -> F(Scale * (10 + t))
      [] p = "flat" -> F(Scale * 10)
      [] p = "zigzag" -> F(Scale * (10 + (t % 3)))
      [] p = "null" -> IF t = 7 THEN NanF ELSE F(Scale * (10 + t))

VolumeAt(p, t) ==
    CASE p = "ones" -> F(Scale)
      [] p = "zeros" -> F(0)
      [] p = "signs" -> IF t % 2 = 0 THEN F(Scale) ELSE F(-Scale)
      [] p = "null" -> IF t = 7 THEN NanF ELSE F(Scale)
      [] p = "late" -> IF t <= 25 THEN F(0) ELSE F(Scale)

DateAt(p, t) == IF p = "gap" /\ t > 10 THEN t + 5 ELSE t

\* The lengths at which the 20 and 50 row windows fill.
MidLens == {20, 21, 50}

PatternSeries(n, c, v, d) ==
    [t \in 1..n |-> [date |-> DateAt(d, t), Close |-> CloseAt(c, t),
                      Volume |-> VolumeAt(v, t)]]

\* Every pattern at the middle lengths; at the full length, where only
\* the 50 and 200 row windows of the closes are new, every close pattern.
LongSeries ==
    {PatternSeries(n, c, v, d) :
        n \in MidLens, c \in ClosePatterns, v \in VolumePatterns, d \in DatePatterns}
    \cup {PatternSeries(MaxFeatRows, c, "ones", "daily") : c \in ClosePatterns}

InitFeat ==
    /\ arg \in [df : ShortSeries \cup LongSeries, pad : BOOLEAN]
    /\ ret = <<>>
    /\ pc = "call"
    /\ NoPipeline
    /\ NoGame

CallComputeFeatures ==
    /\ pc = "call"
    /\ ret' = compute_features(arg.df, arg.pad)
    /\ pc' = "returned"
    /\ UNCHANGED <<arg, pipelineVars, gameVars>>

NextFeat == CallComputeFeatures

SpecFeat == InitFeat /\ [][NextFeat]_vars

----------------------------------------------------------------------------
(***************************************************************************)
(* SpecGame: the game router of app/api/game.py.  Money is counted in      *)
(* thousandths (Mill to 1.0), which makes the fees exact; a date is the    *)
(* number of its day, day 1 being the start of the episode; an Optional    *)
(* value is <<>> for None and <<x>> for x.                                 *)
(***************************************************************************)
Mill == 1000

\* One episode of EPISODES, its dates as day numbers (the episodes of the
\* source run for 48 to 364 days).
EPISODES == {[id |-> "covid_crash_2020", start |-> 1, end |-> 4]}

\* starting_cash, and transaction_fee in thousandths
DIFFICULTY_LEVELS ==
    [easy |-> [starting_cash |-> 100000 * Mill, transaction_fee |-> 1],
     medium |-> [starting_cash |-> 50000 * Mill, transaction_fee |-> 2],
     hard |-> [starting_cash |-> 25000 * Mill, transaction_fee |-> 5]]

\* str(uuid.uuid4()): an id no game has yet.  A handler reads and writes
\* the entries of its own game id only, so one game is followed; "g0" is an
\* id no game was started under.
GameIds == {"g1"}

\* qty of a TradeRequest is any int; Big shares cost more than any
\* starting_cash
Big == 60000

\* What yf.Ticker(symbol).history(start, end) may give for the symbols of
\* _load_historical_data: per symbol the closes of the market days from
\* start up to the day before end (day 2 is none), or nothing at all.
YfHistories ==
    {<<>>,
     [s \in {"SPY"} |-> [d \in {1, 3} |-> IF d = 1 THEN 2 * Mill ELSE 4 * Mill]]}

SetMin(S) == CHOOSE x \in S : \A y \in S : x <= y

\* _get_price_for_date: the close of target_date, or of the next date
\* there is data for, or None
_get_price_for_date(historical_data, symbol, target_date) ==
    IF symbol \notin DOMAIN historical_data THEN <<>>
    ELSE LET data == historical_data[symbol]
             future_dates == {d \in DOMAIN data : d >= target_date}
         IN  IF target_date \in DOMAIN data THEN <<data[target_date]>>
             ELSE IF future_dates = {} THEN <<>>
             ELSE <<data[SetMin(future_dates)]>>

RECURSIVE SumValue(_)
SumValue(holdings) ==
    IF holdings = <<>> THEN 0 ELSE Head(holdings).value + SumValue(Tail(holdings))

\* "Recalculate portfolio": equity and total_value from cash and holdings
Recalculate(portfolio) ==
    LET equity == portfolio.cash + SumValue(portfolio.holdings)
    IN  [portfolio EXCEPT !.equity = equity, !.total_value = equity]

\* next((h for h in holdings if h["symbol"] == symbol), None), as the
\* position of the holding (0: None)
HoldingOf(holdings, symbol) ==
    LET at == {j \in DOMAIN holdings : holdings[j].symbol = symbol}
    IN  IF at = {} THEN 0 ELSE SetMin(at)

\* holdings.remove(holding)
RemoveAt(holdings, j) ==
    [k \in 1..(Len(holdings) - 1) |-> IF k < j THEN holdings[k] ELSE holdings[k + 1]]

\* start_game: the game state of a new game
NewGame(episode, difficulty) ==
    LET cash == DIFFICULTY_LEVELS[difficulty].starting_cash
    IN  [episode_id |-> episode.id,
         difficulty |-> difficulty,
         portfolio |-> [cash |-> cash, holdings |-> <<>>,
                        equity |-> cash, total_value |-> cash],
         transactions |-> <<>>,
         current_date |-> episode.start,
         status |-> "active"]

\* The requests.  speed, qty and limit_price are not validated.
StartRequests ==
    {[episode_id |-> "covid_crash_2020", difficulty |-> "hard"],
     [episode_id |-> "no_such_episode", difficulty |-> "hard"],
     [episode_id |-> "covid_crash_2020", difficulty |-> "expert"]}

Speeds == {-1, 1, 2}

TickRequests == [game_id : GameIds, speed : Speeds] \cup {[game_id |-> "g0", speed |-> 1]}

BuyQtys == {-1, 0, 1, Big}

SellQtys == {-Big, 1}

LimitPrices == {<<>>, <<0>>, <<3 * Mill>>}

TradeOf(game_id, symbol, side, qty, type, limit_price) ==
    [game_id |-> game_id, symbol |-> symbol, side |-> side, qty |-> qty,
     type |-> type, limit_price |-> limit_price]

TradeRequests ==
    {TradeOf(g, "SPY", "buy", qty, "market", <<>>) : g \in GameIds, qty \in BuyQtys}
    \cup {TradeOf(g, "SPY", "sell", qty, "market", <<>>) : g \in GameIds, qty \in SellQtys}
    \cup {TradeOf(g, "SPY", side, 1, "limit", l) :
        g \in GameIds, side \in {"buy", "sell"}, l \in LimitPrices}
    \cup {TradeOf("g1", "SPY", "hold", 1, "market", <<>>),
          TradeOf("g1", "SPY", "buy", 1, "stop", <<>>),
          TradeOf("g1", "XYZ", "buy", 1, "market", <<>>),
          TradeOf("g0", "SPY", "buy", 1, "market", <<>>)}

\* A response: the handler that served the request, the status code, the
\* detail of an error, and the price of a TradeResponse
Response(handler, status, detail, price) ==
    [handler |-> handler, status |-> status, detail |-> detail, price |-> price]

\* raise HTTPException, were the request recorded before the checks.
RaiseRecorded(handler, status, detail) ==
    /\ ret' = Response(handler, status, detail, <<>>)
    /\ game_states' = [g \in DOMAIN game_states |->
                          [game_states[g] EXCEPT !.transactions = Append(@, detail)]]

\* raise HTTPException(status_code, detail): nothing written since the
\* request came in stays as it was
Raise(handler, status, detail) ==
    /\ ret' = Response(handler, status, detail, <<>>)
    /\ UNCHANGED game_states

\* "Get historical data if not cached": _load_historical_data fills the
\* cache with what yfinance gives, or with {} when the fetch fails
Loaded(game_id) ==
    IF game_id \in DOMAIN historical_data_cache
    THEN {historical_data_cache}
    ELSE {historical_data_cache @@ (game_id :> h) : h \in YfHistories}

\* new_date = current_date + timedelta(days=request.speed)
Advance(current_date, speed) == current_date + speed

\* tick_game, "Get prices for all holdings": a holding with a price at
\* new_date gets it, another holding stays as it is
Reprice(holding, historical_data, new_date) ==
    LET new_price == _get_price_for_date(historical_data, holding.symbol, new_date)
    IN  IF new_price # <<>>
        THEN [holding EXCEPT !.current_price = new_price[1],
                             !.value = new_price[1] * holding.shares]
        ELSE holding

StartGame(request) ==
    /\ arg' = [route |-> "POST /game/start", body |-> request]
    /\ UNCHANGED <<pc, pipelineVars, historical_data_cache>>
    /\ IF request.episode_id \notin {ep.id : ep \in EPISODES}
       THEN Raise("start_game", 404, "Episode not found")
       ELSE IF request.difficulty \notin DOMAIN DIFFICULTY_LEVELS
       THEN Raise("start_game", 400, "Invalid difficulty")
       ELSE \E game_id \in GameIds \ DOMAIN game_states :
              LET episode == CHOOSE ep \in EPISODES : ep.id = request.episode_id
              IN  /\ game_states' =
                        game_states @@ (game_id :> NewGame(episode, request.difficulty))
                  /\ ret' = Response("start_game", 200, game_id, <<>>)

\* tick_game.  The dates are followed from day 1 to day MaxDay.
TickGame(request) ==
    /\ arg' = [route |-> "POST /game/tick", body |-> request]
    /\ UNCHANGED <<pc, pipelineVars>>
    /\ IF request.game_id \notin DOMAIN game_states
       THEN Raise("tick_game", 404, "Game not found") /\ UNCHANGED historical_data_cache
       ELSE \E cache \in Loaded(request.game_id) :
              LET game_state == game_states[request.game_id]
                  new_date == Advance(game_state.current_date, request.speed)
                  holdings == game_state.portfolio.holdings
                  repriced == [j \in DOMAIN holdings |->
                                  Reprice(holdings[j], cache[request.game_id], new_date)]
                  portfolio == Recalculate([game_state.portfolio EXCEPT
                                                !.holdings = repriced])
              IN  /\ new_date \in 1..MaxDay
                  /\ historical_data_cache' = cache
                  /\ game_states' =
                        [game_states EXCEPT ![request.game_id] =
                            [game_state EXCEPT !.current_date = new_date,
                                               !.portfolio = portfolio]]
                  /\ ret' = Response("tick_game", 200, "", <<>>)

\* The test of the limit, were it "limit_price is not None".
LimitAppliesUnlessNone(request) ==
    /\ request.type = "limit"
    /\ request.limit_price # <<>>

\* "if request.type == "limit" and request.limit_price": None and 0 are
\* false
LimitApplies(request) ==
    /\ request.type = "limit"
    /\ request.limit_price # <<>>
    /\ request.limit_price[1] # 0

\* total_cost * transaction_fee
Fees(total_cost, difficulty) ==
    (total_cost * DIFFICULTY_LEVELS[difficulty].transaction_fee) \div Mill

\* total_cost_basis / total_shares, to the thousandth
Quotient(a, b) == IF b > 0 THEN a \div b ELSE (0 - a) \div (0 - b)

\* "Check if trade is possible": the detail of the rejection, or ""
Impossible(portfolio, request, total_with_fees) ==
    LET j == HoldingOf(portfolio.holdings, request.symbol)
    IN  IF request.side = "buy"
        THEN IF portfolio.cash < total_with_fees THEN "Insufficient cash" ELSE ""
        ELSE IF j = 0 \/ portfolio.holdings[j].shares < request.qty
             THEN "Insufficient shares" ELSE ""

\* The buy of an existing holding divides by total_shares
DividesByZero(portfolio, request) ==
    LET j == HoldingOf(portfolio.holdings, request.symbol)
    IN  /\ request.side = "buy"
        /\ j # 0
        /\ portfolio.holdings[j].shares + request.qty = 0

\* "Execute trade", side buy.  The ZeroDivisionError of avg_price leaves
\* what was written before it: the cash and the shares.
Buy(portfolio, request, price, total_cost, total_with_fees) ==
    LET holdings == portfolio.holdings
        j == HoldingOf(holdings, request.symbol)
        cash == portfolio.cash - total_with_fees
    IN  IF j = 0
        THEN [portfolio EXCEPT
                 !.cash = cash,
                 !.holdings = Append(holdings,
                                  [symbol |-> request.symbol, shares |-> request.qty,
                                   avg_price |-> price, current_price |-> price,
                                   value |-> total_cost])]
        ELSE LET total_shares == holdings[j].shares + request.qty
                 total_cost_basis == holdings[j].avg_price * holdings[j].shares + total_cost
             IN  IF total_shares = 0
                 THEN [portfolio EXCEPT !.cash = cash,
                                        !.holdings[j].shares = total_shares]
                 ELSE [portfolio EXCEPT
                          !.cash = cash,
                          !.holdings[j] =
                              [@ EXCEPT !.shares = total_shares,
                                        !.avg_price = Quotient(total_cost_basis, total_shares),
                                        !.current_price = price,
                                        !.value = price * total_shares]]

\* "Execute trade", side sell
Sell(portfolio, request, price, total_cost, fees) ==
    LET holdings == portfolio.holdings
        j == HoldingOf(holdings, request.symbol)
        cash == portfolio.cash + (total_cost - fees)
        shares == holdings[j].shares - request.qty
    IN  IF j = 0 THEN [portfolio EXCEPT !.cash = cash]
        ELSE IF shares <= 0
        THEN [portfolio EXCEPT !.cash = cash, !.holdings = RemoveAt(holdings, j)]
        ELSE [portfolio EXCEPT
                 !.cash = cash,
                 !.holdings[j] = [@ EXCEPT !.shares = shares,
                                           !.current_price = price,
                                           !.value = price * shares]]

\* "Record transaction"
Record(transactions, transaction) == Append(transactions, transaction)

ExecuteTrade(request) ==
    /\ arg' = [route |-> "POST /game/trade", body |-> request]
    /\ UNCHANGED <<pc, pipelineVars>>
    /\ IF request.game_id \notin DOMAIN game_states
       THEN Raise("execute_trade", 404, "Game not found")
            /\ UNCHANGED historical_data_cache
       ELSE IF request.side \notin {"buy", "sell"}
       THEN Raise("execute_trade", 400, "Side must be 'buy' or 'sell'")
            /\ UNCHANGED historical_data_cache
       ELSE IF request.type \notin {"market", "limit"}
       THEN Raise("execute_trade", 400, "Type must be 'market' or 'limit'")
            /\ UNCHANGED historical_data_cache
       ELSE \E cache \in Loaded(request.game_id) :
         LET game_state == game_states[request.game_id]
             market == _get_price_for_date(cache[request.game_id], request.symbol,
                                           game_state.current_date)
             price == IF LimitApplies(request) THEN request.limit_price[1] ELSE market[1]
             total_cost == price * request.qty
             fees == Fees(total_cost, game_state.difficulty)
             total_with_fees == total_cost + fees
             portfolio == IF request.side = "buy"
                          THEN Buy(game_state.portfolio, request, price, total_cost,
                                   total_with_fees)
                          ELSE Sell(game_state.portfolio, request, price, total_cost, fees)
             transaction == [symbol |-> request.symbol, side |-> request.side,
                             qty |-> request.qty, price |-> price,
                             total_cost |-> total_cost, fees |-> fees]
         IN  /\ historical_data_cache' = cache
             /\ IF market = <<>>
                THEN Raise("execute_trade", 400, "Price not available")
                ELSE IF /\ LimitApplies(request)
                        /\ request.side = "buy"
                        /\ market[1] > request.limit_price[1]
                THEN Raise("execute_trade", 400, "Market price above limit price")
                ELSE IF /\ LimitApplies(request)
                        /\ request.side = "sell"
                        /\ market[1] < request.limit_price[1]
                THEN Raise("execute_trade", 400, "Market price below limit price")
                ELSE IF Impossible(game_state.portfolio, request, total_with_fees) # ""
                THEN Raise("execute_trade", 400,
                           Impossible(game_state.portfolio, request, total_with_fees))
                ELSE /\ Len(game_state.transactions) < MaxTrades
                     /\ IF DividesByZero(game_state.portfolio, request)
                        THEN /\ game_states' =
                                   [game_states EXCEPT
                                       ![request.game_id].portfolio = portfolio]
                             /\ ret' = Response("execute_trade", 500,
                                                "ZeroDivisionError", <<>>)
                        ELSE /\ game_states' =
                                   [game_states EXCEPT ![request.game_id] =
                                       [game_state EXCEPT
                                           !.portfolio = Recalculate(portfolio),
                                           !.transactions = Record(@, transaction)]]
                             /\ ret' = Response("execute_trade", 200, "", <<price>>)

\* The routes of the router, in the order of their decorators.  A path is
\* the sequence of its segments; {game_id} is a path parameter.
Route(method, path, handler) == [method |-> method, path |-> path, handler |-> handler]

Routes ==
    <<Route("GET", <<"game", "episodes">>, "get_episodes"),
      Route("POST", <<"game", "start">>, "start_game"),
      Route("GET", <<"game", "{game_id}">>, "get_game_state"),
      Route("GET", <<"game", "portfolio">>, "get_portfolio"),
      Route("POST", <<"game", "tick">>, "tick_game"),
      Route("POST", <<"game", "trade">>, "execute_trade"),
      Route("GET", <<"game", "summary">>, "get_game_summary")>>

\* A route's path matches when every segment is the same or is a parameter
PathMatches(pattern, path) ==
    /\ Len(pattern) = Len(path)
    /\ \A k \in DOMAIN pattern : pattern[k] = "{game_id}" \/ pattern[k] = path[k]

\* The router serves a request with the first route that matches (0: none)
Dispatch(method, path) ==
    LET full == {k \in DOMAIN Routes :
                    Routes[k].method = method /\ PathMatches(Routes[k].path, path)}
    IN  IF full = {} THEN 0 ELSE SetMin(full)

GetRequests ==
    {[path |-> <<"game", "episodes">>, game_id |-> ""],
     [path |-> <<"game", "g1">>, game_id |-> ""],
     [path |-> <<"game", "portfolio">>, game_id |-> "g1"],
     [path |-> <<"game", "summary">>, game_id |-> "g1"]}

\* A GET request: get_episodes, get_game_state, get_portfolio or
\* get_game_summary, whichever the router gives it to.  get_game_state
\* takes game_id from the path, the other two from the query.
Get(request) ==
    LET handler == Routes[Dispatch("GET", request.path)].handler
        game_id == IF handler = "get_game_state" THEN request.path[2]
                   ELSE request.game_id
    IN  /\ arg' = [route |-> "GET", body |-> request]
        /\ ret' = IF handler = "get_episodes" THEN Response(handler, 200, "", <<>>)
                  ELSE IF game_id \notin DOMAIN game_states
                  THEN Response(handler, 404, "Game not found", <<>>)
                  ELSE Response(handler, 200, game_id, <<>>)
        /\ UNCHANGED <<pc, pipelineVars, gameVars>>

InitGame ==
    /\ game_states = <<>>
    /\ historical_data_cache = <<>>
    /\ arg = [route |-> "none", body |-> <<>>]
    /\ ret = Response("none", 0, "", <<>>)
    /\ pc = "serving"
    /\ NoPipeline

NextGame ==
    \/ \E request \in StartRequests : StartGame(request)
    \/ \E request \in TickRequests : TickGame(request)
    \/ \E request \in TradeRequests : ExecuteTrade(request)
    \/ \E request \in GetRequests : Get(request)

SpecGame == InitGame /\ [][NextGame]_vars

----------------------------------------------------------------------------
(***************************************************************************)
(* SpecScore: one call of _calculate_score.  The arguments are floats, as  *)
(* the cells of SpecFeat are: numbers in fixed point, NaN, or an infinity. *)
(***************************************************************************)

\* a < b on floats: False when one of them is NaN
FloatLess(a, b) ==
    CASE IsNa(a) \/ IsNa(b) -> FALSE
      [] IsNum(a) /\ IsNum(b) -> a.v < b.v
      [] IsNum(a) -> b.v > 0
      [] IsNum(b) -> a.v < 0
      [] OTHER -> a.v < b.v

\* min(a, b) and max(a, b) of Python: the first argument, unless the second
\* is less (is greater)
PyMin(a, b) == IF FloatLess(b, a) THEN b ELSE a

PyMax(a, b) == IF FloatLess(a, b) THEN b ELSE a

\* n, a whole number, as a float
Whole(n) == F(n * Scale)

_calculate_score(return_pct, sharpe_est, max_drawdown, trades_count) ==
    LET return_clamped == PyMin(PyMax(return_pct, Whole(-100)), Whole(100))
        return_score == Div(Add(return_clamped, Whole(100)), Whole(2))
        sharpe_score == PyMin(PyMax(Times(10, sharpe_est), Whole(0)), Whole(20))
        drawdown_penalty == PyMin(Div(max_drawdown, Whole(5)), Whole(20))
        activity_bonus == PyMin(Div(Whole(trades_count), Whole(10)), Whole(10))
        score == Add(Sub(Add(return_score, sharpe_score), drawdown_penalty),
                     activity_bonus)
    IN  PyMax(PyMin(score, Whole(100)), Whole(0))

\* The arguments of a call: floats of both signs, below, at and above the
\* limits of the clamps, the infinities and NaN; trades_count is an int.
ScoreFloats ==
    {NanF, InfF(-1), InfF(1)}
    \cup {Whole(n) : n \in {-1000, -200, -100, -1, 0, 1, 2, 3, 100, 200, 1000}}
    \cup {F(-50), F(50)}

ScoreInputs ==
    [return_pct : ScoreFloats, sharpe_est : ScoreFloats, max_drawdown : ScoreFloats,
     trades_count : {-50, 0, 1, 50, 100, 1000}]

InitScore ==
    /\ arg \in ScoreInputs
    /\ ret = <<>>
    /\ pc = "call"
    /\ NoPipeline
    /\ NoGame

CallCalculateScore ==
    /\ pc = "call"
    /\ ret' = _calculate_score(arg.return_pct, arg.sharpe_est, arg.max_drawdown,
                               arg.trades_count)
    /\ pc' = "returned"
    /\ UNCHANGED <<arg, pipelineVars, gameVars>>

NextScore == CallCalculateScore

SpecScore == InitScore /\ [][NextScore]_vars

----------------------------------------------------------------------------
(***************************************************************************)
(* The claims.                                                             *)
(***************************************************************************)
MergeReturned == pc = "idle" /\ lastOp \in {"merge", "merge_again"}

\* C1: after merge_stage commits, every row that was in staging has its
\* key in the permanent table: where the table already had the key, the
\* row of that key carries the staged close and features; where it had
\* not, the staged row itself is there.
C1_MergeUpserts ==
    MergeReturned =>
        \A r \in BagToSet(preStage) :
            IF \E t \in prePerm : Key(t) = Key(r)
            THEN /\ \E t \in perm : Key(t) = Key(r)
                 /\ \A t \in perm : Key(t) = Key(r) =>
                        t.close = r.close /\ t.feat = r.feat
            ELSE Cols(r) \in perm

C1_Witness ==
    /\ MergeReturned
    /\ \E r \in BagToSet(preStage) : \E t \in prePerm : Key(t) = Key(r) /\ t # Cols(r)
    /\ \E r \in BagToSet(preStage) : \A t \in prePerm : Key(t) # Key(r)

\* C2: whatever load_stage and merge_stage calls are made, staging holding
\* one key more than once included, the permanent table never holds two
\* rows of one key and no step removes a key from it.
C2_OneRowPerKeyNoDeletion ==
    [][PrimaryKey(perm') /\ Keys(perm) \subseteq Keys(perm')]_vars

C2_Witness ==
    /\ lastOp = "merge_raised"
    /\ \E r \in BagToSet(stage) : KeyTwice(stage, Key(r))
    /\ perm # {}

\* C3: while merge_stage has executed statements and not committed, and
\* after a crash at such a point, both committed tables are as they were
\* when the call began; once it has committed, the permanent table holds
\* the merge and staging is empty.
C3_MergeAtomic ==
    /\ pc \in {"merged", "truncated", "crashed"} =>
            perm = prePerm /\ stage = preStage
    /\ MergeReturned =>
            perm = MergeResult(prePerm, preStage) /\ stage = EmptyBag

C3_Witness ==
    /\ pc = "crashed"
    /\ txPerm = prePerm
    /\ MergeResult(prePerm, preStage) # prePerm
    /\ preStage # EmptyBag

\* C4: while the last call that returned is merge_stage (no load_stage
\* since), no step changes the permanent table: a second merge_stage
\* leaves it as the first did.
C4_MergeIdempotent ==
    [][(lastOp \in {"merge", "merge_again", "merge_raised"}) => (perm' = perm)]_vars

C4_Witness ==
    /\ pc = "idle"
    /\ lastOp = "merge_again"
    /\ perm # {}

\* C5: load_stage into empty staging, then merge_stage into an empty
\* permanent table, leaves exactly one permanent row per distinct key of
\* the staged series, carrying values that were staged for that key.
C5_RoundTrip ==
    (pc = "idle" /\ lastOp \in {"merge", "merge_again", "merge_raised"}
        /\ prePerm = {} /\ preStage # EmptyBag) =>
        /\ Keys(perm) = Keys(BagToSet(preStage))
        /\ PrimaryKey(perm)
        /\ \A t \in perm : \E r \in BagToSet(preStage) : Cols(r) = t

\* The round trip of C5 for a series that holds every key once.
RoundTripOfDistinctKeys ==
    (pc = "idle" /\ lastOp \in {"merge", "merge_again", "merge_raised"}
        /\ prePerm = {} /\ preStage # EmptyBag
        /\ \A r \in BagToSet(preStage) : ~KeyTwice(preStage, Key(r))) =>
        perm = {Cols(r) : r \in BagToSet(preStage)}

\* C6: a file that read_raw_csv cannot read never ends the run: the
\* driver skips it and goes on.
C6_ReadErrorIsLocal == ~(pc = "raised" /\ raisedBy = "read_raw_csv")

\* C7: when load_stage or merge_stage raises, main is left by the
\* exception with the permanent table as the last committed merge left
\* it, and from then on nothing happens: no file, no retry, no merge.
C7_PersistenceErrorFatal ==
    [][raisedBy' \in {"load_stage", "merge_stage"} =>
          /\ pc' = "raised"
          /\ perm' = perm
          /\ raisedBy # "none" => UNCHANGED vars]_vars

C7_Witness ==
    /\ pc = "raised"
    /\ raisedBy = "merge_stage"
    /\ i > K
    /\ Cardinality(perm) >= K
    /\ stage # EmptyBag

\* C8: having taken i files, the driver has called the chunk merge at
\* every multiple of K up to i, and at Done the final merge once.
C8_MergeEveryK ==
    pc \in {"loop", "done"} =>
        /\ mergedAt = {n \in 1..i : n % K = 0}
        /\ pc = "done" => finalMerges = 1

\* The files whose rows the staging table holds.
FilesInStage == {r.file : r \in BagToSet(stage)}

\* C9: the staging table never holds rows of more than K files.
C9_StageBounded == Cardinality(FilesInStage) <= K

C11_DriverTerminates ==
    /\ raisedBy \notin {"load_stage", "merge_stage"} => pc \in {"loop", "done"}
    /\ pc = "done" => finalMerges = 1 /\ ~cnOpen
    /\ ~cnOpen => pc = "done"

\* C12: when main has reached Done a second time over the same raw files,
\* the permanent table is what it was when main reached Done the first
\* time.
C12_PipelineIdempotent == (run = 2 /\ pc = "done") => perm = permDone

C12_Witness ==
    /\ run = 2
    /\ pc = "done"
    /\ i > K
    /\ \E e \in listed : e[1] > K /\ e[2].path.lower
    /\ processed_rows > Cardinality(permDone)

\* A file that can be read and holds no row with a close.
NoClose(f) == f.readable /\ \A j \in DOMAIN f.raw : f.raw[j].close = NaN

\* C13: the loop iteration of a file with an empty result (no row, or no
\* row with a close) calls no load_stage, leaves both tables and the row
\* counter as they were, raises nothing and leaves main in its loop.
C13_EmptyResultSkipped ==
    [][(i' = i + 1 /\ NoClose(FileAt(listed', i'))) =>
          (/\ stage' = stage
           /\ perm' = perm
           /\ processed_rows' = processed_rows
           /\ lastStaged' = lastStaged
           /\ raisedBy' = raisedBy
           /\ pc' = "loop")]_vars

C13_Witness ==
    /\ pc = "loop"
    /\ stage # EmptyBag
    /\ processed_rows = i - 2
    /\ \E e1, e2 \in listed :
          /\ e1[2].readable /\ e1[2].raw = <<>>
          /\ e2[2].raw # <<>> /\ NoClose(e2[2])
          /\ e2[1] = i

\* C15: no row of the staging table and no row of the permanent table has
\* a null close.
C15_StagedCloseNotNull ==
    /\ \A r \in BagToSet(stage) : NotNa(r.close)
    /\ \A t \in perm : NotNa(t.close)

C15_Witness ==
    \E e \in listed :
        /\ \E j \in DOMAIN e[2].raw : e[2].raw[j].close = NaN
        /\ \E t \in perm : t.symbol = e[1] /\ t.date = 3
        /\ \E r \in BagToSet(stage) : r.file > e[1]

\* The rows of a raw file that have a close.
ClosesOf(f) == Cardinality({j \in DOMAIN f.raw : f.raw[j].close # NaN})

\* The rows of staging table s that the load_stage call of file n put there.
RowsOfFile(s, n) == BagCardinality([x \in {y \in BagToSet(s) : y.file = n} |-> s[x]])

RECURSIVE RowsPassed(_, _)
RowsPassed(ls, n) ==
    IF n = 0 THEN 0 ELSE RowsPassed(ls, n - 1) + ClosesOf(FileAt(ls, n))

\* C19: at Done the row counter is the sum, over the files that were not
\* skipped, of the rows passed to load_stage.
C19_ReportedTotal == pc = "done" => processed_rows = RowsPassed(listed, i)

C19_Witness ==
    /\ pc = "done"
    /\ i > K
    /\ processed_rows = i
    /\ \E e \in listed : NoClose(e[2])
    /\ \E e \in listed : ClosesOf(e[2]) = 2

\* The value the cast is to write for v: null for NaN and both infinities.
NullSafe(v) == IF v \in {NaN, PosInf, NegInf} THEN None ELSE v

\* C14: after load_stage returned, staging holds for every row of dfp a
\* record of its symbol and date whose numeric fields are null where the
\* row's value is NaN, +infinity or -infinity, and the row's value where
\* it is finite.
C14_NullSafeCast ==
    pc = "load_returned" =>
        \A j \in DOMAIN dfpArg :
            \E x \in BagToSet(stage) :
                /\ x.symbol = symArg
                /\ x.date = dfpArg[j].date
                /\ x.close = NullSafe(dfpArg[j].close)
                /\ x.feat = NullSafe(dfpArg[j].feat)

\* The cast of C14 for a dfp without infinities: NaN is written as null.
NaNWrittenAsNull ==
    (pc = "load_returned"
        /\ \A j \in DOMAIN dfpArg :
              dfpArg[j].close \notin {PosInf, NegInf} /\ dfpArg[j].feat \notin {PosInf, NegInf}) =>
        \A j \in DOMAIN dfpArg :
            \E x \in BagToSet(stage) :
                /\ x.symbol = symArg
                /\ x.date = dfpArg[j].date
                /\ x.close = NullSafe(dfpArg[j].close)
                /\ x.feat = NullSafe(dfpArg[j].feat)

\* C17: a load_stage call that returned made one cursor call, an
\* executemany with as many parameter rows as dfp has rows, and one
\* commit after it; a merge_stage call that returned made one execute
\* and one commit.
C17_OneStatementOneCommit ==
    /\ pc = "load_executed" => commits = 0
    /\ pc = "load_returned" =>
          executed = <<[op |-> "executemany", n |-> Len(dfpArg)]>> /\ commits = 1
    /\ pc = "merge_executed" => commits = 0
    /\ pc = "merge_returned" =>
          Len(executed) = 1 /\ executed[1].op = "execute" /\ commits = 1

C17_Witness ==
    /\ pc = "merge_returned"
    /\ Len(dfpArg) > 1
    /\ Cardinality(perm) > 1

\* How often bag s holds x.
Copies(s, x) == IF x \in BagToSet(s) THEN s[x] ELSE 0

\* C18: the commit of load_stage leaves every record staging held, as
\* often as it held it, adds exactly as many records as dfp has rows, one
\* of the call's symbol and the row's date for every row of dfp, and
\* leaves the permanent table as it was; no earlier step of the call
\* changes either table.
C18_LoadOnlyAppends ==
    [][/\ pc' = "load_executed" => stage' = stage /\ perm' = perm
       /\ pc' = "load_returned" =>
             (/\ perm' = perm
              /\ \A x \in BagToSet(stage) : Copies(stage', x) >= Copies(stage, x)
              /\ BagCardinality(stage') = BagCardinality(stage) + Len(dfpArg)
              /\ \A j \in DOMAIN dfpArg :
                    \E x \in BagToSet(stage') :
                        /\ x.symbol = symArg
                        /\ x.date = dfpArg[j].date
                        /\ Copies(stage', x) > Copies(stage, x))]_vars

C18_Witness ==
    /\ pc = "load_returned"
    /\ Len(dfpArg) > 1
    /\ BagCardinality(stage) > Len(dfpArg)
    /\ perm # {}

\* Every staged row was merged once if a TRUNCATE removed it, no row was
\* merged twice, and when both processes are done every row either of
\* them staged was merged once.
MergedOnce ==
    /\ \A id \in RowIds : mergedTimes[id] <= 1
    /\ \A id \in truncated : mergedTimes[id] = 1
    /\ (\A p \in Procs : procs[p].pc = "done") =>
          \A p \in Procs : \A n \in 1..procs[p].loads : mergedTimes[RowId(p, n)] = 1

\* C20: where each of the two processes has a staging table of its own,
\* or the processes run one after the other, under every interleaving
\* every staged row is merged exactly once and none is truncated without
\* having been merged.
C20_StagedRowsMergedOnce == cfg \in {"distinct", "serialized"} => MergedOnce

C20_Witness ==
    /\ cfg = "distinct"
    /\ \A p \in Procs : procs[p].pc = "merged" /\ procs[p].src # EmptyBag
    /\ truncated # {}

\* The statement of C20 for two processes that share dbo.processed_stage
\* and run at the same time: it does not hold, a row staged between the
\* MERGE and the TRUNCATE of the other process is truncated unmerged, and
\* a row read by both MERGE statements is merged twice.
SharedStagingMergedOnce == cfg = "shared" => MergedOnce

\* C21: the pipeline gets as far as listing the raw files only where
\* every one of the eight settings is present.
C21_EverySettingRequired == pc = "listed" => arg = Settings

\* The part of C21 that get_conn enforces: no connection is asked for
\* unless the four database settings are present.
SqlSettingsRequired == pc \in {"connected", "listed"} => SqlSettings \subseteq arg

\* C30: the series read_raw_csv returns is in ascending order of date,
\* has no row without a date, and has no date in two rows.
C30_RawBarInvariant ==
    pc = "returned" =>
        /\ IsSortedByDate(ret)
        /\ \A j \in DOMAIN ret : ret[j].date # NaT
        /\ \A j, k \in DOMAIN ret : j # k => ret[j].date # ret[k].date

\* The part of C30 that sort_values and dropna establish, with every row
\* that has a date kept.
SortedAndDated ==
    pc = "returned" =>
        /\ IsSortedByDate(ret)
        /\ \A j \in DOMAIN ret : ret[j].date # NaT
        /\ BagOfSeq(ret) = BagOfSeq(DropNaDate(arg.rows))

\* C29: the symbol of a file is its name without a trailing "_raw.csv",
\* upper-cased, nothing else of the name being removed; two distinct names
\* that give one symbol differ in letter case only.
C29_SymbolFromName ==
    pc = "returned" =>
        /\ \A n \in 1..2 : ret[n] = Upper(ReplaceTrailing(arg[n]))
        /\ (arg[1] # arg[2] /\ ret[1] = ret[2]) => Upper(arg[1]) = Upper(arg[2])

\* "_raw.csv" occurs in the name at the end and nowhere else.
SuffixAtEndOnly(name) ==
    /\ name[Len(name)] = Suffix
    /\ \A j \in 1..(Len(name) - 1) : name[j] # Suffix

\* The part of C29 that holds: for names in which "_raw.csv" occurs at the
\* end and nowhere else.
SymbolOfPlainName ==
    pc = "returned" =>
        /\ \A n \in 1..2 :
              SuffixAtEndOnly(arg[n]) => ret[n] = Upper(ReplaceTrailing(arg[n]))
        /\ (/\ arg[1] # arg[2]
            /\ ret[1] = ret[2]
            /\ SuffixAtEndOnly(arg[1])
            /\ SuffixAtEndOnly(arg[2]))
           => Upper(arg[1]) = Upper(arg[2])

\* C23: the table compute_features returns has as many rows as the series
\* it was given, with the dates of the series in their order: no row is
\* dropped, none is added for a date the series lacks.
C23_ShapePreserved ==
    pc = "returned" =>
        /\ Len(ret) = Len(arg.df)
        /\ \A t \in DOMAIN ret : ret[t].date = arg.df[t].date

\* A table returned for a series with a gap in its dates, the rows of the
\* warm-up (no Sma_5 yet) among its rows.
C23_Witness ==
    /\ pc = "returned"
    /\ Len(ret) > Lag
    /\ IsNa(ret[1].Sma_5)
    /\ \E t \in 1..(Len(ret) - 1) : ret[t + 1].date > ret[t].date + 1

SmaOf(r, N) ==
    CASE N = 5 -> r.Sma_5
      [] N = 10 -> r.Sma_10
      [] N = 20 -> r.Sma_20
      [] N = 50 -> r.Sma_50
      [] N = 200 -> r.Sma_200

\* In every row t (from 1) of the returned table a column over a window
\* of N rows is null before row N and not null from row N on.
NullBeforeFullWindow ==
    \A t \in DOMAIN ret :
        /\ \A N \in {5, 10, 20, 50, 200} : IsNa(SmaOf(ret[t], N)) <=> t < N
        /\ IsNa(ret[t].Bb_Middle) <=> t < 20
        /\ IsNa(ret[t].Bb_Upper) <=> t < 20
        /\ IsNa(ret[t].Bb_Lower) <=> t < 20
        /\ IsNa(ret[t].Volatility_20) <=> t < 20
        /\ IsNa(ret[t].Volume_Sma_20) <=> t < 20

ClosesNotNull == \A t \in DOMAIN arg.df : ~IsNa(arg.df[t].Close)

VolumesNotNull == \A t \in DOMAIN arg.df : ~IsNa(arg.df[t].Volume)

C24_MomentumPositional ==
    pc = "returned" =>
        \A t \in DOMAIN ret :
            LET now == arg.df[t].Close
                m == ret[t].Momentum_20
            IN  IF t <= Lag THEN IsNa(m)
                ELSE LET then == arg.df[t - Lag].Close
                     IN  IF IsNum(now) /\ IsNum(then)
                         THEN m = F(now.v - then.v)
                         ELSE IsNa(m)

\* A row past the 20th whose date less 20 days is the date of another row
\* than the one 20 places before, with another close: Momentum_20 is a
\* number there.
C24_Witness ==
    /\ pc = "returned"
    /\ \E t \in DOMAIN ret : \E u \in DOMAIN ret :
          /\ t > Lag
          /\ u # t - Lag
          /\ ret[u].date = ret[t].date - Lag
          /\ IsNum(ret[u].Close)
          /\ IsNum(ret[t - Lag].Close)
          /\ ret[u].Close # ret[t - Lag].Close
          /\ IsNum(ret[t].Momentum_20)

\* (C[t] - C[t-1]) / C[t-1] for two numbers, the second not zero
ReturnOf(now, then) == Div(F(now.v - then.v), then)

\* C25: Returns is never null and never infinite; it is 0.0 in the first
\* row and in every row where the previous close is null or zero (or the
\* close of the row is null), and (C[t] - C[t-1]) / C[t-1] in every other.
C25_ReturnsFinite ==
    pc = "returned" =>
        \A t \in DOMAIN ret :
            LET rt == ret[t].Returns
                now == arg.df[t].Close
            IN  /\ IsNum(rt)
                /\ t = 1 => rt = F(0)
                /\ t > 1 =>
                      LET then == arg.df[t - 1].Close
                      IN  IF IsNum(now) /\ IsNum(then) /\ then.v # 0
                          THEN rt = ReturnOf(now, then)
                          ELSE rt = F(0)

\* The part of C25 that holds: Returns is never null, is 0.0 in the first
\* row, and is (C[t] - C[t-1]) / C[t-1] where both closes are numbers and
\* the previous one is not zero.
ReturnsOfNumbers ==
    pc = "returned" =>
        \A t \in DOMAIN ret :
            LET rt == ret[t].Returns
                now == arg.df[t].Close
            IN  /\ ~IsNa(rt)
                /\ t = 1 => rt = F(0)
                /\ t > 1 =>
                      LET then == arg.df[t - 1].Close
                      IN  (IsNum(now) /\ IsNum(then) /\ then.v # 0)
                              => rt = ReturnOf(now, then)

\* Returns after a close of zero: an
\* infinity where the close is not zero, 0.0 where it is zero too.
ReturnsAfterZeroClose ==
    pc = "returned" =>
        \A t \in DOMAIN ret :
            (t > 1 /\ arg.df[t - 1].Close = F(0) /\ IsNum(arg.df[t].Close)) =>
                ret[t].Returns =
                    IF arg.df[t].Close.v = 0 THEN F(0) ELSE InfF(1)

\* Volume_Ratio of a row is as C26 has it: null where Volume_Sma_20 is
\* null or zero, never an infinity, and V / Volume_Sma_20 elsewhere.
RatioGuarded(t) ==
    LET d == ret[t].Volume_Sma_20
        v == arg.df[t].Volume
        q == ret[t].Volume_Ratio
    IN  /\ (IsNa(d) \/ d = F(0)) => IsNa(q)
        /\ q.k # "inf"
        /\ (IsNum(d) /\ d.v > 0 /\ IsNum(v)) => q = F((v.v * Scale) \div d.v)

\* C26: in every row Volume_Ratio is V[t] / Volume_Sma_20[t], and null
\* where Volume_Sma_20[t] is null or zero; it is never infinite.
C26_VolumeRatioGuarded ==
    pc = "returned" => \A t \in DOMAIN ret : RatioGuarded(t)

\* The part of C26 that holds: for a series whose volumes are not
\* negative (a window of mean zero is then a window of zeros, and 0/0 is
\* NaN).
VolumeRatioOfNonNegative ==
    (pc = "returned"
        /\ \A t \in DOMAIN arg.df : IsNum(arg.df[t].Volume) => arg.df[t].Volume.v >= 0)
    => \A t \in DOMAIN ret : RatioGuarded(t)

CloseColumn == [t \in DOMAIN arg.df |-> arg.df[t].Close]

\* The Bollinger bands of row t lie 2 standard deviations of the last 20
\* closes, taken with the divisor 20 - ddof, from Sma_20.
BandsAt(t, ddof) ==
    LET sd == RollingStdDdof(CloseColumn, 20, t, ddof)
    IN  /\ ret[t].Bb_Upper = F(ret[t].Sma_20.v + 2 * sd.v)
        /\ ret[t].Bb_Lower = F(ret[t].Sma_20.v - 2 * sd.v)

\* C27: in every row Bb_Middle is Sma_20, and where Sma_20 is a number
\* Bb_Upper and Bb_Lower are Sma_20 plus and minus twice the population
\* standard deviation (divisor 20) of the last 20 closes.
C27_PopulationBands ==
    pc = "returned" =>
        \A t \in DOMAIN ret :
            /\ ret[t].Bb_Middle = ret[t].Sma_20
            /\ IsNum(ret[t].Sma_20) => BandsAt(t, 0)

\* What holds instead: the bands use the sample standard deviation
\* (divisor 19), around Bb_Middle = Sma_20 and at equal distances from it.
SampleBands ==
    pc = "returned" =>
        \A t \in DOMAIN ret :
            /\ ret[t].Bb_Middle = ret[t].Sma_20
            /\ IsNum(ret[t].Sma_20) =>
                  /\ BandsAt(t, 1)
                  /\ ret[t].Bb_Upper.v - ret[t].Bb_Middle.v
                        = ret[t].Bb_Middle.v - ret[t].Bb_Lower.v

\* alpha * x + (1 - alpha) * y with alpha = 2 / (span + 1), for numbers
Smoothed(x, y, span) == F((2 * x.v + (span - 1) * y.v) \div (span + 1))

\* Column y of the returned table is the EMA of column x over span as
\* C28 has it: a number in every row, x in the first row, and the
\* recurrence in every later one.
IsEmaOf(y, x, span) ==
    \A t \in DOMAIN y :
        /\ IsNum(y[t])
        /\ t = 1 => y[t] = x[t]
        /\ t > 1 => (IsNum(x[t]) /\ IsNum(y[t - 1]) /\ y[t] = Smoothed(x[t], y[t - 1], span))

\* The EMA columns of the returned table are as C28 has them.
EmaColumns ==
    LET Ema_12 == [t \in DOMAIN ret |-> ret[t].Ema_12]
        Ema_26 == [t \in DOMAIN ret |-> ret[t].Ema_26]
        Macd == [t \in DOMAIN ret |-> ret[t].Macd]
        Macd_Signal == [t \in DOMAIN ret |-> ret[t].Macd_Signal]
    IN  /\ IsEmaOf(Ema_12, CloseColumn, 12)
        /\ IsEmaOf(Ema_26, CloseColumn, 26)
        /\ IsEmaOf(Macd_Signal, Macd, 9)
        /\ \A t \in DOMAIN ret :
              /\ IsNum(Macd[t])
              /\ Macd[t] = F(Ema_12[t].v - Ema_26[t].v)
              /\ t = 1 => Macd[t] = F(0)

\* C28: Ema_12, Ema_26 and Macd_Signal have a value in every row: the
\* value of their input in the first row, and alpha * x[t] + (1 - alpha) *
\* EMA[t-1] with alpha = 2 / (span + 1) in every later row; Macd is
\* Ema_12 - Ema_26, 0 in the first row and a number in every row.
C28_EmaSeededByFirstValue == pc = "returned" => EmaColumns

\* The part of C28 that holds: for a series whose closes are not null.
EmaOfNumbers == (pc = "returned" /\ ClosesNotNull) => EmaColumns

\* After a null close the EMA repeats its value, and the close after a
\* gap of one row enters with the weight alpha against (1 - alpha)^2 for
\* the old value: for span 12, 26/169 against 121/169.
EmaAcrossNullClose ==
    pc = "returned" =>
        \A t \in DOMAIN ret :
            (t > 1 /\ IsNa(arg.df[t].Close) /\ IsNum(arg.df[t - 1].Close)) =>
                /\ ret[t].Ema_12 = ret[t - 1].Ema_12
                /\ (t < Len(ret) /\ IsNum(arg.df[t + 1].Close)) =>
                      ret[t + 1].Ema_12 =
                          F((121 * ret[t].Ema_12.v + 26 * arg.df[t + 1].Close.v) \div 147)

(***************************************************************************)
(* The game router (SpecGame, SpecScore).                                  *)
(***************************************************************************)

\* The response of the last request, by its kind
Served(handler, status) == ret.handler = handler /\ ret.status = status

\* The request served last was a tick of an existing game
Ticked(g) ==
    /\ Served("tick_game", 200)
    /\ arg.body.game_id = g

\* The market days of a game: the days its price history has data for
MarketDays(historical_data) ==
    UNION {DOMAIN historical_data[s] : s \in DOMAIN historical_data}

\* The n-th market day after day d (-1: there is none)
RECURSIVE NthMarketDay(_, _, _)
NthMarketDay(days, d, n) ==
    IF n = 0 THEN d
    ELSE LET later == {x \in days : x > d}
         IN  IF later = {} THEN 0 - 1 ELSE NthMarketDay(days, SetMin(later), n - 1)

\* C31: a tick with speed N >= 1 moves the current date of an existing game
\* N market days on (days with price data), where the history has that many.
\* tick_game adds N calendar days: from day 1 a tick of speed 1 gives day 2,
\* a day without data, where the next market day is day 3.
C31_TickAdvancesMarketDays ==
    [][\A g \in DOMAIN game_states :
          (/\ Ticked(g)'
           /\ arg'.body.speed >= 1
           /\ NthMarketDay(MarketDays(historical_data_cache'[g]),
                           game_states[g].current_date, arg'.body.speed) # 0 - 1)
          => (game_states'[g].current_date =
                NthMarketDay(MarketDays(historical_data_cache'[g]),
                             game_states[g].current_date, arg'.body.speed))]_vars

\* What tick_game does: the date moves by speed calendar days, whatever the
\* speed and whatever days have data.
TickAddsCalendarDays ==
    [][\A g \in DOMAIN game_states :
          Ticked(g)' =>
              (game_states'[g].current_date
                 = game_states[g].current_date + arg'.body.speed)]_vars

C31_TickedOffMarket ==
    \E g \in DOMAIN game_states :
        /\ Ticked(g)
        /\ arg.body.speed >= 1
        /\ game_states[g].current_date \notin MarketDays(historical_data_cache[g])
        /\ \E d \in MarketDays(historical_data_cache[g]) : d > game_states[g].current_date

\* The handler a GET of /game/<name>?game_id=... is meant for
HandlerNamed(name) ==
    IF name = "portfolio" THEN "get_portfolio"
    ELSE IF name = "summary" THEN "get_game_summary"
    ELSE "get_game_state"

\* C32: for a game id that game_states has, GET /game/portfolio?game_id=<id>
\* and GET /game/summary?game_id=<id> are served by get_portfolio and
\* get_game_summary and answered with the game's data (status 200).
\* /game/{game_id} is registered before both of them, so get_game_state
\* takes the request with game_id "portfolio" or "summary" and answers 404.
C32_PortfolioAndSummaryRouted ==
    (/\ arg.route = "GET"
     /\ arg.body.path[2] \in {"portfolio", "summary"}
     /\ arg.body.game_id \in DOMAIN game_states)
    => (/\ ret.handler = HandlerNamed(arg.body.path[2])
        /\ ret.status = 200)

\* What the router does: every GET of /game/<name> but /game/episodes goes
\* to get_game_state, with <name> as the game id.
GetServedByGameState ==
    (arg.route = "GET" /\ arg.body.path # <<"game", "episodes">>)
    => (/\ ret.handler = "get_game_state"
        /\ ret.status = IF arg.body.path[2] \in DOMAIN game_states THEN 200 ELSE 404)

\* C33: cash never goes negative: whatever start, trade and tick requests
\* were served, with any integer qty, every game has portfolio.cash >= 0.
\* A sell of a negative qty passes the check of the shares and adds the
\* negative proceeds to the cash.
C33_CashNeverNegative ==
    \A g \in DOMAIN game_states : game_states[g].portfolio.cash >= 0

\* A symbol has at most one holding in a portfolio: a buy appends a holding
\* only when next(...) found none.
OneHoldingPerSymbol ==
    \A g \in DOMAIN game_states :
        LET holdings == game_states[g].portfolio.holdings
        IN  \A j, k \in DOMAIN holdings :
                holdings[j].symbol = holdings[k].symbol => j = k

\* C34: every holding of a portfolio has shares > 0, and a symbol has at
\* most one holding.  A buy with qty 0 or a negative qty passes the check of
\* the cash and appends a holding with that many shares.
C34_HoldingsPositiveAndUnique ==
    /\ OneHoldingPerSymbol
    /\ \A g \in DOMAIN game_states :
          LET holdings == game_states[g].portfolio.holdings
          IN  \A j \in DOMAIN holdings : holdings[j].shares > 0

\* The sums of a portfolio agree
Consistent(portfolio) ==
    /\ portfolio.equity = portfolio.cash + SumValue(portfolio.holdings)
    /\ portfolio.total_value = portfolio.equity
    /\ \A j \in DOMAIN portfolio.holdings :
          portfolio.holdings[j].value
            = portfolio.holdings[j].current_price * portfolio.holdings[j].shares

\* C35: after the start of a game and after every successful trade or tick,
\* equity = cash + the sum of the holdings' values, total_value = equity and
\* every holding has value = current_price * shares.  A buy that brings the
\* shares of a holding to 0 raises ZeroDivisionError after the cash and the
\* shares were written; a later tick at a date without a price succeeds and
\* leaves the holding with its old value.
C35_PortfolioConsistent ==
    (ret.status = 200 /\ ret.handler \in {"start_game", "execute_trade", "tick_game"})
    => \A g \in DOMAIN game_states : Consistent(game_states[g].portfolio)

\* A request keeps the sums in agreement, unless it is a trade that dies of
\* the division.
ConsistentUnlessDivided ==
    [][(\A g \in DOMAIN game_states : Consistent(game_states[g].portfolio))
       => (ret'.status # 500
           => \A g \in DOMAIN game_states' : Consistent(game_states'[g].portfolio))]_vars

\* The details of the rejections of execute_trade
Rejections ==
    {"Game not found", "Side must be 'buy' or 'sell'", "Type must be 'market' or 'limit'",
     "Price not available", "Market price above limit price",
     "Market price below limit price", "Insufficient cash", "Insufficient shares"}

\* C36: a rejected trade changes nothing: when execute_trade answers with
\* one of its rejections (unknown game, invalid side or type, no price,
\* limit not met, insufficient cash or shares), every game's portfolio,
\* transactions and current_date are as before the request; and the
\* transactions of a game grow by exactly one entry in a successful trade
\* of that game and are the same after any other request.
C36_RejectedTradeChangesNothing ==
    [][/\ (ret'.handler = "execute_trade" /\ ret'.detail \in Rejections)
          => (game_states' = game_states)
       /\ \A g \in DOMAIN game_states :
             IF ret'.handler = "execute_trade" /\ ret'.status = 200 /\ arg'.body.game_id = g
             THEN /\ Len(game_states'[g].transactions)
                       = Len(game_states[g].transactions) + 1
                  /\ SubSeq(game_states'[g].transactions, 1,
                            Len(game_states[g].transactions))
                       = game_states[g].transactions
             ELSE game_states'[g].transactions = game_states[g].transactions]_vars

\* A buy was rejected for its cost in a game that has traded: there were
\* cash, a holding and a transaction to change.
C36_Witness ==
    /\ Served("execute_trade", 400)
    /\ ret.detail = "Insufficient cash"
    /\ game_states[arg.body.game_id].transactions # <<>>
    /\ game_states[arg.body.game_id].portfolio.holdings # <<>>

\* The trade that dies of the division is none of the rejections.  It is
\* answered 500, and of it the statement is false: the cash and the shares
\* were written.
DividedTradeChangesNothing ==
    [][(ret'.handler = "execute_trade" /\ ret'.status = 500)
       => (game_states' = game_states)]_vars

\* The episode of a game
EpisodeOf(game_state) == CHOOSE ep \in EPISODES : ep.id = game_state.episode_id

\* C37: whatever ticks are served, with any speed, the current_date of a
\* game never moves backward and stays within [start, end] of its episode.
\* tick_game adds speed days and checks nothing: a negative speed moves the
\* date back, and a tick at the end of the episode moves it past the end.
C37_DateForwardWithinEpisode ==
    [][\A g \in DOMAIN game_states :
          /\ game_states'[g].current_date >= game_states[g].current_date
          /\ game_states'[g].current_date >= EpisodeOf(game_states'[g]).start
          /\ game_states'[g].current_date <= EpisodeOf(game_states'[g]).end]_vars

\* Only a tick moves the date, and a tick with speed >= 0 moves it forward.
DateMovesWithSpeed ==
    [][\A g \in DOMAIN game_states :
          /\ game_states'[g].current_date # game_states[g].current_date => Ticked(g)'
          /\ (Ticked(g)' /\ arg'.body.speed >= 0)
             => (game_states'[g].current_date >= game_states[g].current_date)]_vars

\* The second half of C37 alone, which ticks of speed 1 refute: the date of
\* a game is within its episode.
DateWithinEpisode ==
    \A g \in DOMAIN game_states :
        /\ game_states[g].current_date >= EpisodeOf(game_states[g]).start
        /\ game_states[g].current_date <= EpisodeOf(game_states[g]).end

\* The request is a limit order with a limit_price that is not 0
HasLimit(request) ==
    /\ request.type = "limit"
    /\ request.limit_price # <<>>
    /\ request.limit_price[1] # 0

\* The market price of a trade request: the price of its symbol at the
\* current date of its game
MarketPrice(states, cache, request) ==
    _get_price_for_date(cache[request.game_id], request.symbol,
                        states[request.game_id].current_date)

\* The limit of the request is not met by the market price
LimitMissed(request, market) ==
    \/ request.side = "buy" /\ market > request.limit_price[1]
    \/ request.side = "sell" /\ market < request.limit_price[1]

\* C38: a limit buy is never filled when the market price is above its
\* limit_price, nor a limit sell when the market price is below it; an
\* accepted limit order with a limit_price that is not 0 is filled at
\* exactly limit_price; a limit order without limit_price, or with 0, is
\* filled at the market price and never rejected for its limit.
C38_LimitOrders ==
    [][(ret'.handler = "execute_trade" /\ arg'.body.type = "limit"
          /\ arg'.body.game_id \in DOMAIN game_states
          /\ arg'.body.side \in {"buy", "sell"})
       => LET request == arg'.body
              market == MarketPrice(game_states, historical_data_cache', request)
              transactions == game_states'[request.game_id].transactions
          IN  /\ (HasLimit(request) /\ market # <<>> /\ LimitMissed(request, market[1]))
                 => (ret'.status = 400 /\ game_states' = game_states)
              /\ (HasLimit(request) /\ ret'.status = 200)
                 => (/\ ret'.price = request.limit_price
                     /\ transactions[Len(transactions)].price = request.limit_price[1])
              /\ (~HasLimit(request) /\ ret'.status = 200)
                 => (/\ ret'.price = market
                     /\ transactions[Len(transactions)].price = market[1])
              /\ ~HasLimit(request)
                 => ret'.detail \notin {"Market price above limit price",
                                        "Market price below limit price"}]_vars

\* A limit buy was filled at its limit_price, above the market price
C38_Witness ==
    /\ Served("execute_trade", 200)
    /\ HasLimit(arg.body)
    /\ arg.body.side = "buy"
    /\ ret.price = arg.body.limit_price
    /\ MarketPrice(game_states, historical_data_cache, arg.body) # ret.price

\* The call of _calculate_score has returned a number from 0 to 100
ScoreWithinRange ==
    /\ IsNum(ret)
    /\ ret.v >= 0
    /\ ret.v <= 100 * Scale

\* C39: the score _calculate_score returns is between 0 and 100, for every
\* combination of return_pct, sharpe_est, max_drawdown and trades_count,
\* negative ones included.  min and max of Python keep a NaN that is their
\* first argument, so a NaN argument comes out as a NaN score.
C39_ScoreClamped == pc = "returned" => ScoreWithinRange

\* For arguments that are not NaN, the infinities and the negative values
\* among them, the score is between 0 and 100.
ScoreClampedUnlessNaN ==
    (/\ pc = "returned"
     /\ ~IsNa(arg.return_pct)
     /\ ~IsNa(arg.sharpe_est)
     /\ ~IsNa(arg.max_drawdown))
    => ScoreWithinRange

=============================================================================
